---- MODULE Spec2Model ----
(***************************************************************************)
(* MetaLogic simulation kernel: the event-driven SimulationEngine, its     *)
(* EventQueue, the wire resolver, the gate classes it instantiates and the *)
(* worker that drives it.                                                  *)
(***************************************************************************)
EXTENDS Integers, Sequences, FiniteSets, TLC

(***************************************************************************)
(* StateType (types/state.ts).  Undefined stands for the JavaScript value  *)
(* `undefined` read from a missing key or index.                           *)
(***************************************************************************)
ZERO == 0
ONE == 1
HI_Z == 2
CONFLICT == 3
UNKNOWN == 4
Undefined == 0 - 1

StateType == {ZERO, ONE, HI_Z, CONFLICT, UNKNOWN}

\* a ?? b
Nullish(a, b) == IF a = Undefined THEN b ELSE a

\* The empty object {}.
EmptyRec == [key \in {} |-> 0]

\* obj[key], undefined when the key is missing.
Get(obj, key) == IF key \in DOMAIN obj THEN obj[key] ELSE Undefined

\* obj[key] = val
Put(obj, key, val) == [x \in (DOMAIN obj) \cup {key} |-> IF x = key THEN val ELSE obj[x]]

\* arr[i] for a 0-based index, undefined outside the array.
At(arr, i) == IF i >= 0 /\ i < Len(arr) THEN arr[i + 1] ELSE Undefined

(***************************************************************************)
(* JavaScript Map: entries kept in insertion order.                        *)
(***************************************************************************)
MapHas(m, k) == \E i \in 1..Len(m) : m[i].key = k
MapIdx(m, k) == CHOOSE i \in 1..Len(m) : m[i].key = k
MapGet(m, k) == m[MapIdx(m, k)].val
MapSet(m, k, v) ==
  IF MapHas(m, k) THEN [m EXCEPT ![MapIdx(m, k)] = [key |-> k, val |-> v]]
  ELSE Append(m, [key |-> k, val |-> v])
MapDelete(m, k) ==
  IF MapHas(m, k)
  THEN SubSeq(m, 1, MapIdx(m, k) - 1) \o SubSeq(m, MapIdx(m, k) + 1, Len(m))
  ELSE m
MapKeys(m) == {m[i].key : i \in 1..Len(m)}

(***************************************************************************)
(* WireResolver.ts                                                         *)
(***************************************************************************)
SeqHas(s, v) == \E i \in 1..Len(s) : s[i] = v

\* The scan of the for loop from source i (1-based): a CONFLICT source
\* returns at once, the others set the flags read after the loop.
RECURSIVE ResolveScan(_, _, _, _, _)
ResolveScan(sources, i, hasZero, hasOne, hasUnknown) ==
  IF i > Len(sources)
  THEN IF hasZero /\ hasOne THEN CONFLICT
       ELSE IF hasOne THEN ONE
       ELSE IF hasZero THEN ZERO
       ELSE IF hasUnknown THEN UNKNOWN
       ELSE HI_Z
  ELSE IF sources[i] = CONFLICT THEN CONFLICT
  ELSE ResolveScan(sources, i + 1,
                   hasZero \/ sources[i] = ZERO,
                   hasOne \/ sources[i] = ONE,
                   hasUnknown \/ sources[i] = UNKNOWN)

\* A resolver without the bus-conflict check: ONE wins over ZERO.
resolveWireStateOneWins(sources) ==
  IF SeqHas(sources, CONFLICT) THEN CONFLICT
  ELSE IF SeqHas(sources, ONE) THEN ONE
  ELSE IF SeqHas(sources, ZERO) THEN ZERO
  ELSE IF SeqHas(sources, UNKNOWN) THEN UNKNOWN
  ELSE HI_Z

\* A resolver that lets a floating source hide an undetermined one.
resolveWireStateFloating(sources) ==
  IF SeqHas(sources, HI_Z) /\ ResolveScan(sources, 1, FALSE, FALSE, FALSE) = UNKNOWN
  THEN HI_Z
  ELSE ResolveScan(sources, 1, FALSE, FALSE, FALSE)

resolveWireState(sources) ==
  IF Len(sources) = 0 THEN HI_Z
  ELSE ResolveScan(sources, 1, FALSE, FALSE, FALSE)

(***************************************************************************)
(* BasicGates.ts: the 5-state helpers.                                     *)
(***************************************************************************)
logicalAnd(a, b) ==
  IF a = ZERO \/ b = ZERO THEN ZERO
  ELSE IF a = CONFLICT \/ b = CONFLICT THEN CONFLICT
  ELSE IF a = UNKNOWN \/ b = UNKNOWN THEN UNKNOWN
  ELSE IF a = HI_Z \/ b = HI_Z THEN UNKNOWN
  ELSE ONE

logicalOr(a, b) ==
  IF a = ONE \/ b = ONE THEN ONE
  ELSE IF a = CONFLICT \/ b = CONFLICT THEN CONFLICT
  ELSE IF a = UNKNOWN \/ b = UNKNOWN THEN UNKNOWN
  ELSE IF a = HI_Z \/ b = HI_Z THEN UNKNOWN
  ELSE ZERO

\* An exclusive or that reads a floating input as ZERO.
logicalXorFloatingLow(a, b) ==
  IF a = CONFLICT \/ b = CONFLICT THEN CONFLICT
  ELSE IF a = UNKNOWN \/ b = UNKNOWN THEN UNKNOWN
  ELSE IF (a = ONE) = (b = ONE) THEN ZERO ELSE ONE

logicalXor(a, b) ==
  IF a = CONFLICT \/ b = CONFLICT THEN CONFLICT
  ELSE IF a = UNKNOWN \/ b = UNKNOWN THEN UNKNOWN
  ELSE IF a = HI_Z \/ b = HI_Z THEN UNKNOWN
  ELSE IF a = b THEN ZERO ELSE ONE

logicalNot(a) ==
  CASE a = ZERO -> ONE
    [] a = ONE -> ZERO
    [] a = HI_Z -> UNKNOWN
    [] a = CONFLICT -> CONFLICT
    [] a = UNKNOWN -> UNKNOWN
    [] OTHER -> Undefined

\* DFlipFlop.invertState
invertState(state) ==
  CASE state = ZERO -> ONE
    [] state = ONE -> ZERO
    [] OTHER -> state

(***************************************************************************)
(* Gate.ts: the base class.  A gate object is a record; ports are records  *)
(* [state, connectedWires].  priv holds the private fields of a subclass   *)
(* (period, highDuration, pulseDuration, dataWidth).  The readonly fields  *)
(* delay and params are never read by the engine and are left out.         *)
(***************************************************************************)
NewPort == [state |-> UNKNOWN, connectedWires |-> <<>>]

PortStates(ports) == [i \in 1..Len(ports) |-> ports[i].state]

\* Gate constructor
Gate(id, type, inputCount, outputCount) ==
  [id |-> id,
   type |-> type,
   inputs |-> [i \in 1..inputCount |-> NewPort],
   outputs |-> [i \in 1..outputCount |-> NewPort],
   previousInputs |-> [i \in 1..inputCount |-> UNKNOWN],
   internalState |-> EmptyRec,
   priv |-> EmptyRec]

getInputStates(g) == PortStates(g.inputs)
getOutputStates(g) == PortStates(g.outputs)

setInput(g, index, state) ==
  IF index >= 0 /\ index < Len(g.inputs)
  THEN [g EXCEPT !.inputs[index + 1].state = state]
  ELSE g

setOutput(g, index, state) ==
  IF index >= 0 /\ index < Len(g.outputs)
  THEN [g EXCEPT !.outputs[index + 1].state = state]
  ELSE g

connectInputWire(g, portIndex, wireId) ==
  IF portIndex >= 0 /\ portIndex < Len(g.inputs)
  THEN [g EXCEPT !.inputs[portIndex + 1].connectedWires = Append(@, wireId)]
  ELSE g

connectOutputWire(g, portIndex, wireId) ==
  IF portIndex >= 0 /\ portIndex < Len(g.outputs)
  THEN [g EXCEPT !.outputs[portIndex + 1].connectedWires = Append(@, wireId)]
  ELSE g

\* wires.indexOf(wireId) then splice(idx, 1): the first occurrence is removed.
RemoveFirst(s, v) ==
  IF SeqHas(s, v)
  THEN LET idx == CHOOSE i \in 1..Len(s) : s[i] = v /\ \A j \in 1..(i - 1) : s[j] # v
       IN SubSeq(s, 1, idx - 1) \o SubSeq(s, idx + 1, Len(s))
  ELSE s

disconnectInputWire(g, portIndex, wireId) ==
  IF portIndex >= 0 /\ portIndex < Len(g.inputs)
  THEN [g EXCEPT !.inputs[portIndex + 1].connectedWires = RemoveFirst(@, wireId)]
  ELSE g

disconnectOutputWire(g, portIndex, wireId) ==
  IF portIndex >= 0 /\ portIndex < Len(g.outputs)
  THEN [g EXCEPT !.outputs[portIndex + 1].connectedWires = RemoveFirst(@, wireId)]
  ELSE g

\* An edge test that fires on a high level, whatever the previous value.
isHighLevel(g, inputIndex) == At(getInputStates(g), inputIndex) = ONE


isRisingEdge(g, inputIndex) ==
  At(g.previousInputs, inputIndex) = ZERO /\ At(getInputStates(g), inputIndex) = ONE

updatePreviousInputs(g) == [g EXCEPT !.previousInputs = getInputStates(g)]

setInternalState(g, state) == [g EXCEPT !.internalState = state]

(***************************************************************************)
(* The gate classes: constructors.                                         *)
(***************************************************************************)
ToggleGate(id) ==
  [Gate(id, "TOGGLE", 0, 1) EXCEPT !.internalState = ("value" :> ZERO)]

ClockDefaultPeriod == 10

\* A duty cycle is a fraction num / den; the constructor's default is 0.5.
ClockDefaultDutyCycle == [num |-> 1, den |-> 2]

\* Math.floor(period * dutyCycle)
FloorTimes(period, dutyCycle) == (period * dutyCycle.num) \div dutyCycle.den

ClockGate(id, period, dutyCycle) ==
  [Gate(id, "CLOCK", 0, 1) EXCEPT
     !.internalState = ("phase" :> 0 @@ "value" :> ZERO),
     !.priv = ("period" :> period @@ "highDuration" :> FloorTimes(period, dutyCycle))]

PulseDefaultDuration == 1

PulseGate(id, pulseDuration) ==
  [Gate(id, "PULSE", 0, 1) EXCEPT
     !.internalState = ("active" :> FALSE @@ "endTime" :> 0),
     !.priv = ("pulseDuration" :> pulseDuration)]

NotGate(id) == Gate(id, "NOT", 1, 1)

AndGate(id, inputCount) == Gate(id, "AND", inputCount, 1)

OrGate(id, inputCount) == Gate(id, "OR", inputCount, 1)

XorGate(id, inputCount) == Gate(id, "XOR", inputCount, 1)

NandGate(id, inputCount) == Gate(id, "NAND", inputCount, 1)

NorGate(id, inputCount) == Gate(id, "NOR", inputCount, 1)

XnorGate(id, inputCount) == Gate(id, "XNOR", inputCount, 1)

KeypadGate(id) ==
  [Gate(id, "KEYPAD", 0, 4) EXCEPT !.internalState = ("value" :> 0)]

LedGate(id) == Gate(id, "LED", 1, 0)

TriStateBufferGate(id) == Gate(id, "TRI_BUFFER", 2, 1)

DFlipFlop(id) ==
  [Gate(id, "D_FLIPFLOP", 2, 2) EXCEPT !.internalState = ("q" :> ZERO)]

DFlipFlopWithSetReset(id) ==
  [Gate(id, "D_FLIPFLOP_SR", 4, 2) EXCEPT !.internalState = ("q" :> ZERO)]

\* RomGate with dataWidth 4.  params is the descriptor's internalState
\* (EmptyRec when the descriptor has none); a memory map is a function from
\* the address (the key addr.toString()) to the stored word.
Rom16x4Gate(id, params) ==
  [Gate(id, "ROM_16X4", 5, 4) EXCEPT
     !.internalState =
        ("memory" :> (IF "memory" \in DOMAIN params THEN params["memory"] ELSE EmptyRec)),
     !.priv = ("dataWidth" :> 4)]

Counter4BitGate(id) ==
  [Gate(id, "COUNTER_4BIT", 9, 5) EXCEPT
     !.internalState = ("bits" :> <<ZERO, ZERO, ZERO, ZERO>> @@ "carry" :> ZERO)]

\* RamGate with dataWidth 4: 4 address inputs, 4 data inputs, WE and CLK.
Ram16x4Gate(id) ==
  [Gate(id, "RAM_16X4", 10, 4) EXCEPT
     !.internalState = ("memory" :> EmptyRec),
     !.priv = ("dataWidth" :> 4)]

(***************************************************************************)
(* evaluate(): the new gate object and the returned outputs array.         *)
(***************************************************************************)
isValid(s) == s = ZERO \/ s = ONE

\* A conversion that reads the bit at i only.
bitsValueOneBit(inputs, i) ==
  IF i <= Len(inputs) /\ inputs[i] = ONE THEN 2 ^ (i - 1) ELSE 0


RECURSIVE bitsValue(_, _)
bitsValue(inputs, i) ==
  IF i > Len(inputs) THEN 0
  ELSE (IF inputs[i] = ONE THEN 2 ^ (i - 1) ELSE 0) + bitsValue(inputs, i + 1)

\* A conversion that skips the validity test.
bitsToIndexUnchecked(inputs) == bitsValue(inputs, 1)


\* MemoryGates bitsToIndex: -1 if any input is invalid
bitsToIndex(inputs) ==
  IF \E i \in 1..Len(inputs) : ~isValid(inputs[i]) THEN 0 - 1
  ELSE bitsValue(inputs, 1)

RECURSIVE AndFold(_, _, _)
AndFold(g, result, i) ==
  IF i >= Len(g.inputs) THEN result
  ELSE AndFold(g, logicalAnd(result, Nullish(At(getInputStates(g), i), UNKNOWN)), i + 1)

RECURSIVE SetOutputs(_, _, _)
\* for (i...) this.setOutput(i, outputs[i])
SetOutputs(g, outputs, i) ==
  IF i >= Len(outputs) THEN g
  ELSE SetOutputs(setOutput(g, i, outputs[i + 1]), outputs, i + 1)

EvaluateToggle(g) ==
  LET value == Nullish(Get(g.internalState, "value"), ZERO)
  IN [gate |-> setOutput(g, 0, value), outputs |-> <<value>>]

EvaluateClock(g) ==
  LET value == Nullish(Get(g.internalState, "value"), ZERO)
  IN [gate |-> setOutput(g, 0, value), outputs |-> <<value>>]

\* a missing `active` key is falsy
IsActive(g) == "active" \in DOMAIN g.internalState /\ g.internalState["active"] = TRUE

EvaluatePulse(g) ==
  LET value == IF IsActive(g) THEN ONE ELSE ZERO
  IN [gate |-> setOutput(g, 0, value), outputs |-> <<value>>]

EvaluateNot(g) ==
  LET result == logicalNot(Nullish(At(getInputStates(g), 0), UNKNOWN))
  IN [gate |-> setOutput(g, 0, result), outputs |-> <<result>>]

EvaluateAnd(g) ==
  LET result == AndFold(g, Nullish(At(getInputStates(g), 0), UNKNOWN), 1)
  IN [gate |-> setOutput(g, 0, result), outputs |-> <<result>>]

RECURSIVE OrFold(_, _, _)
OrFold(g, result, i) ==
  IF i >= Len(g.inputs) THEN result
  ELSE OrFold(g, logicalOr(result, Nullish(At(getInputStates(g), i), UNKNOWN)), i + 1)

RECURSIVE XorFold(_, _, _)
XorFold(g, result, i) ==
  IF i >= Len(g.inputs) THEN result
  ELSE XorFold(g, logicalXor(result, Nullish(At(getInputStates(g), i), UNKNOWN)), i + 1)

EvaluateOr(g) ==
  LET result == OrFold(g, Nullish(At(getInputStates(g), 0), UNKNOWN), 1)
  IN [gate |-> setOutput(g, 0, result), outputs |-> <<result>>]

EvaluateXor(g) ==
  LET result == XorFold(g, Nullish(At(getInputStates(g), 0), UNKNOWN), 1)
  IN [gate |-> setOutput(g, 0, result), outputs |-> <<result>>]

EvaluateNand(g) ==
  LET result == logicalNot(AndFold(g, Nullish(At(getInputStates(g), 0), UNKNOWN), 1))
  IN [gate |-> setOutput(g, 0, result), outputs |-> <<result>>]

EvaluateNor(g) ==
  LET result == logicalNot(OrFold(g, Nullish(At(getInputStates(g), 0), UNKNOWN), 1))
  IN [gate |-> setOutput(g, 0, result), outputs |-> <<result>>]

EvaluateXnor(g) ==
  LET result == logicalNot(XorFold(g, Nullish(At(getInputStates(g), 0), UNKNOWN), 1))
  IN [gate |-> setOutput(g, 0, result), outputs |-> <<result>>]

\* KeypadGate.evaluate: output i is bit i of the value, (value >> i) & 1.
EvaluateKeypad(g) ==
  LET value == Nullish(Get(g.internalState, "value"), 0)
      outputs == [i \in 1..4 |-> IF (value \div (2 ^ (i - 1))) % 2 = 1 THEN ONE ELSE ZERO]
  IN [gate |-> SetOutputs(g, outputs, 0), outputs |-> outputs]

EvaluateLed(g) == [gate |-> g, outputs |-> <<>>]

\* A tri-state buffer that drives ZERO when disabled.
TriStateResultDriven(data, enable) ==
  IF enable = ONE THEN data
  ELSE IF enable = ZERO THEN ZERO
  ELSE UNKNOWN

\* TriStateBufferGate.evaluate: input 0 is the data, input 1 the enable.
TriStateResult(data, enable) ==
  IF enable = ONE THEN data
  ELSE IF enable = ZERO THEN HI_Z
  ELSE UNKNOWN

EvaluateTriStateBuffer(g) ==
  [gate |-> setOutput(g, 0, TriStateResult(Nullish(At(getInputStates(g), 0), UNKNOWN),
                                           Nullish(At(getInputStates(g), 1), UNKNOWN))),
   outputs |-> <<TriStateResult(Nullish(At(getInputStates(g), 0), UNKNOWN),
                                Nullish(At(getInputStates(g), 1), UNKNOWN))>>]

EvaluateDFlipFlop(g) ==
  LET d == Nullish(At(getInputStates(g), 0), UNKNOWN)
      captured ==
        IF isRisingEdge(g, 1)
        THEN (IF d = ZERO \/ d = ONE THEN Put(g.internalState, "q", d)
              ELSE IF d = UNKNOWN \/ d = HI_Z THEN Put(g.internalState, "q", UNKNOWN)
              ELSE IF d = CONFLICT THEN Put(g.internalState, "q", CONFLICT)
              ELSE g.internalState)
        ELSE g.internalState
      q == Get(captured, "q")
      qNot == invertState(q)
  IN [gate |-> setOutput(setOutput([g EXCEPT !.internalState = captured], 0, q), 1, qNot),
      outputs |-> <<q, qNot>>]

\* DFlipFlopWithSetReset.evaluate: inputs 0 = D, 1 = CLK, 2 = SET and
\* 3 = RESET (active low).
EvaluateDFlipFlopWithSetReset(g) ==
  LET set == Nullish(At(getInputStates(g), 2), ONE)
      reset == Nullish(At(getInputStates(g), 3), ONE)
      d == Nullish(At(getInputStates(g), 0), UNKNOWN)
      captured ==
        IF set = ZERO /\ reset = ZERO THEN Put(g.internalState, "q", CONFLICT)
        ELSE IF set = ZERO THEN Put(g.internalState, "q", ONE)
        ELSE IF reset = ZERO THEN Put(g.internalState, "q", ZERO)
        ELSE IF isRisingEdge(g, 1)
          THEN (IF d = ZERO \/ d = ONE THEN Put(g.internalState, "q", d)
                ELSE Put(g.internalState, "q", UNKNOWN))
        ELSE g.internalState
      q == Get(captured, "q")
      qNot == invertState(q)
  IN [gate |-> setOutput(setOutput([g EXCEPT !.internalState = captured], 0, q), 1, qNot),
      outputs |-> <<q, qNot>>]

EvaluateRom(g) ==
  LET en == Nullish(At(getInputStates(g), 4), UNKNOWN)
      memory == g.internalState["memory"]
      addr == bitsToIndex([i \in 1..4 |-> Nullish(At(getInputStates(g), i - 1), UNKNOWN)])
      width == g.priv["dataWidth"]
      outputs ==
        IF en = ONE /\ addr >= 0
        THEN [i \in 1..width |->
                IF addr \in DOMAIN memory
                THEN Nullish(At(memory[addr], i - 1), ZERO) ELSE ZERO]
        ELSE IF en = ZERO THEN [i \in 1..width |-> HI_Z]
        ELSE [i \in 1..width |-> UNKNOWN]
  IN [gate |-> SetOutputs(g, outputs, 0), outputs |-> outputs]

fromBool(b) == IF b THEN ONE ELSE ZERO

\* Inputs: 0 = CLK, 1 = CLR, 2 = EN, 3 = LOAD, 4 = UP_DOWN, 5-8 = D0-D3.
EvaluateCounter(g) ==
  LET in == getInputStates(g)
      clr == Nullish(At(in, 1), UNKNOWN)
      en == Nullish(At(in, 2), UNKNOWN)
      load == Nullish(At(in, 3), UNKNOWN)
      upDown == Nullish(At(in, 4), UNKNOWN)
      bits == g.internalState["bits"]
      allValid == \A i \in 0..3 : isValid(At(bits, i))
      val == bitsValue(bits, 1)
      moved == IF upDown = ONE THEN val + 1
               ELSE IF upDown = ZERO THEN val - 1
               ELSE val
      counted == [i \in 1..Len(bits) |->
                    IF i <= 4 THEN fromBool((((moved + 16) % 16) \div (2 ^ (i - 1))) % 2 = 1)
                    ELSE bits[i]]
      newBits ==
        IF ~isRisingEdge(g, 0) THEN bits
        ELSE IF clr = ONE THEN [i \in 1..Len(bits) |-> IF i <= 4 THEN ZERO ELSE bits[i]]
        ELSE IF load = ONE
          THEN [i \in 1..Len(bits) |->
                  IF i <= 4 THEN Nullish(At(in, i + 4), UNKNOWN) ELSE bits[i]]
        ELSE IF en = ONE /\ allValid THEN counted
        ELSE bits
      newCarry ==
        IF ~isRisingEdge(g, 0) THEN g.internalState["carry"]
        ELSE IF clr # ONE /\ load # ONE /\ en = ONE /\ allValid
          THEN (IF upDown = ONE THEN fromBool(val + 1 > 15)
                ELSE IF upDown = ZERO THEN fromBool(val - 1 < 0)
                ELSE ZERO)
        ELSE ZERO
      outputs == newBits \o <<newCarry>>
      g1 == [g EXCEPT !.internalState =
               Put(Put(g.internalState, "bits", newBits), "carry", newCarry)]
  IN [gate |-> SetOutputs(g1, SubSeq(outputs, 1, 5), 0), outputs |-> outputs]

\* Inputs: 0-3 = A0-A3, 4-7 = DIN, 8 = WE, 9 = CLK.
EvaluateRam(g) ==
  LET in == getInputStates(g)
      width == g.priv["dataWidth"]
      weIdx == 4 + width
      clkIdx == weIdx + 1
      we == Nullish(At(in, weIdx), UNKNOWN)
      addr == bitsToIndex([i \in 1..4 |-> Nullish(At(in, i - 1), UNKNOWN)])
      memory ==
        IF isRisingEdge(g, clkIdx) /\ we = ONE /\ addr >= 0
        THEN Put(g.internalState["memory"], addr,
                 [i \in 1..width |-> Nullish(At(in, 4 + i - 1), UNKNOWN)])
        ELSE g.internalState["memory"]
      outputs ==
        IF addr >= 0
        THEN [i \in 1..width |->
                IF addr \in DOMAIN memory
                THEN Nullish(At(memory[addr], i - 1), ZERO) ELSE ZERO]
        ELSE [i \in 1..width |-> UNKNOWN]
      g1 == [g EXCEPT !.internalState = Put(g.internalState, "memory", memory)]
  IN [gate |-> SetOutputs(g1, outputs, 0), outputs |-> outputs]

evaluate(g) ==
  CASE g.type = "TOGGLE" -> EvaluateToggle(g)
    [] g.type = "CLOCK" -> EvaluateClock(g)
    [] g.type = "PULSE" -> EvaluatePulse(g)
    [] g.type = "NOT" -> EvaluateNot(g)
    [] g.type = "AND" -> EvaluateAnd(g)
    [] g.type = "OR" -> EvaluateOr(g)
    [] g.type = "XOR" -> EvaluateXor(g)
    [] g.type = "NAND" -> EvaluateNand(g)
    [] g.type = "NOR" -> EvaluateNor(g)
    [] g.type = "XNOR" -> EvaluateXnor(g)
    [] g.type = "KEYPAD" -> EvaluateKeypad(g)
    [] g.type = "LED" -> EvaluateLed(g)
    [] g.type = "TRI_BUFFER" -> EvaluateTriStateBuffer(g)
    [] g.type = "D_FLIPFLOP" -> EvaluateDFlipFlop(g)
    [] g.type = "D_FLIPFLOP_SR" -> EvaluateDFlipFlopWithSetReset(g)
    [] g.type = "ROM_16X4" -> EvaluateRom(g)
    [] g.type = "COUNTER_4BIT" -> EvaluateCounter(g)
    [] g.type = "RAM_16X4" -> EvaluateRam(g)

(***************************************************************************)
(* Stimulus methods of the source gates.                                   *)
(***************************************************************************)
\* ToggleGate.toggle
toggle(g) ==
  LET current == Nullish(Get(g.internalState, "value"), ZERO)
  IN [g EXCEPT !.internalState = Put(@, "value", IF current = ZERO THEN ONE ELSE ZERO)]

\* ToggleGate.setValue
setValue(g, value) == [g EXCEPT !.internalState = Put(@, "value", value)]

\* ClockGate.tick: the new gate object; the returned value is ClockValue.
ClockValue(g, currentTime) ==
  IF (currentTime % g.priv["period"]) < g.priv["highDuration"] THEN ONE ELSE ZERO

tick(g, currentTime) ==
  [g EXCEPT !.internalState =
     Put(Put(@, "value", ClockValue(g, currentTime)), "phase", currentTime % g.priv["period"])]

\* PulseGate.trigger
trigger(g, currentTime) ==
  [g EXCEPT !.internalState =
     Put(Put(@, "active", TRUE), "endTime", currentTime + g.priv["pulseDuration"])]

\* A checkPulseEnd that ends the pulse one step late.
PulseEndsLate(g, currentTime) ==
  IsActive(g) /\ "endTime" \in DOMAIN g.internalState
    /\ currentTime > g.internalState["endTime"]


\* PulseGate.checkPulseEnd: the returned boolean, and the gate afterwards.
PulseEnds(g, currentTime) ==
  IsActive(g) /\ "endTime" \in DOMAIN g.internalState
    /\ currentTime >= g.internalState["endTime"]

checkPulseEnd(g, currentTime) ==
  IF PulseEnds(g, currentTime) THEN [g EXCEPT !.internalState = Put(@, "active", FALSE)]
  ELSE g

(***************************************************************************)
(* Gate.reset and the onReset overrides.                                   *)
(***************************************************************************)
onReset(g) ==
  CASE g.type = "TOGGLE" -> [g EXCEPT !.internalState = ("value" :> ZERO)]
    [] g.type = "CLOCK" -> [g EXCEPT !.internalState = ("phase" :> 0 @@ "value" :> ZERO)]
    [] g.type = "PULSE" -> [g EXCEPT !.internalState = ("active" :> FALSE @@ "endTime" :> 0)]
    [] g.type = "KEYPAD" -> [g EXCEPT !.internalState = ("value" :> 0)]
    [] g.type = "D_FLIPFLOP" -> [g EXCEPT !.internalState = ("q" :> ZERO)]
    [] g.type = "D_FLIPFLOP_SR" -> [g EXCEPT !.internalState = ("q" :> ZERO)]
    [] g.type = "COUNTER_4BIT" ->
         [g EXCEPT !.internalState =
            ("bits" :> <<ZERO, ZERO, ZERO, ZERO>> @@ "carry" :> ZERO)]
    [] g.type = "RAM_16X4" -> [g EXCEPT !.internalState = ("memory" :> EmptyRec)]
    [] g.type = "ROM_16X4" ->
         [g EXCEPT !.internalState =
            ("memory" :> (IF "memory" \in DOMAIN g.internalState
                          THEN g.internalState["memory"] ELSE EmptyRec))]
    [] OTHER -> g

\* reset() that restores the ports and leaves the internal state alone.
resetPortsOnly(g) ==
  [g EXCEPT
     !.inputs = [i \in 1..Len(g.inputs) |-> [g.inputs[i] EXCEPT !.state = UNKNOWN]],
     !.outputs = [i \in 1..Len(g.outputs) |-> [g.outputs[i] EXCEPT !.state = UNKNOWN]],
     !.previousInputs = [i \in 1..Len(g.inputs) |-> UNKNOWN]]

reset(g) ==
  onReset([g EXCEPT
     !.inputs = [i \in 1..Len(g.inputs) |-> [g.inputs[i] EXCEPT !.state = UNKNOWN]],
     !.outputs = [i \in 1..Len(g.outputs) |-> [g.outputs[i] EXCEPT !.state = UNKNOWN]],
     !.previousInputs = [i \in 1..Len(g.inputs) |-> UNKNOWN],
     !.internalState = EmptyRec])

(***************************************************************************)
(* SimulationEngine.createGateFromState and the factories.  A descriptor   *)
(* (GateState) is [id, type, inputStates, outputStates, hasInternalState,  *)
(* internalState]; internalState is EmptyRec when hasInternalState is      *)
(* FALSE.                                                                  *)
(***************************************************************************)
KnownTypes == {"TOGGLE", "CLOCK", "PULSE", "NOT", "AND", "OR", "XOR", "NAND", "NOR", "XNOR",
               "LED", "KEYPAD", "TRI_BUFFER", "D_FLIPFLOP", "D_FLIPFLOP_SR", "COUNTER_4BIT",
               "RAM_16X4",
               "ROM_16X4"}

\* x || 2
OrElse(x, dflt) == IF x = 0 THEN dflt ELSE x

createGate(gateState) ==
  LET params == gateState.internalState
  IN CASE gateState.type = "TOGGLE" -> ToggleGate(gateState.id)
       [] gateState.type = "CLOCK" ->
            ClockGate(gateState.id,
                      IF "period" \in DOMAIN params THEN params["period"]
                      ELSE ClockDefaultPeriod,
                      \* params['dutyCycle'] is not read: the default applies
                      ClockDefaultDutyCycle)
       [] gateState.type = "PULSE" ->
            PulseGate(gateState.id,
                      IF "duration" \in DOMAIN params THEN params["duration"]
                      ELSE PulseDefaultDuration)
       [] gateState.type = "NOT" -> NotGate(gateState.id)
       [] gateState.type = "AND" ->
            AndGate(gateState.id, OrElse(Len(gateState.inputStates), 2))
       [] gateState.type = "OR" ->
            OrGate(gateState.id, OrElse(Len(gateState.inputStates), 2))
       [] gateState.type = "XOR" ->
            XorGate(gateState.id, OrElse(Len(gateState.inputStates), 2))
       [] gateState.type = "NAND" ->
            NandGate(gateState.id, OrElse(Len(gateState.inputStates), 2))
       [] gateState.type = "NOR" ->
            NorGate(gateState.id, OrElse(Len(gateState.inputStates), 2))
       [] gateState.type = "XNOR" ->
            XnorGate(gateState.id, OrElse(Len(gateState.inputStates), 2))
       [] gateState.type = "KEYPAD" -> KeypadGate(gateState.id)
       [] gateState.type = "LED" -> LedGate(gateState.id)
       [] gateState.type = "TRI_BUFFER" -> TriStateBufferGate(gateState.id)

createSequentialGate(gateState) ==
  CASE gateState.type = "D_FLIPFLOP" -> DFlipFlop(gateState.id)
    [] gateState.type = "D_FLIPFLOP_SR" -> DFlipFlopWithSetReset(gateState.id)

createMemoryGate(gateState) ==
  CASE gateState.type = "COUNTER_4BIT" -> Counter4BitGate(gateState.id)
    [] gateState.type = "RAM_16X4" -> Ram16x4Gate(gateState.id)
    [] gateState.type = "ROM_16X4" -> Rom16x4Gate(gateState.id, gateState.internalState)

\* Defined for the descriptors whose type is known; the others throw.
createGateFromState(gateState) ==
  LET gate == IF gateState.type \in {"D_FLIPFLOP", "D_FLIPFLOP_SR"}
                THEN createSequentialGate(gateState)
              ELSE IF gateState.type \in {"COUNTER_4BIT", "RAM_16X4", "ROM_16X4"}
                THEN createMemoryGate(gateState)
              ELSE createGate(gateState)
  IN IF gateState.hasInternalState
     THEN setInternalState(gate, gateState.internalState)
     ELSE gate

(***************************************************************************)
(* EventQueue.ts: a binary heap in an array, ordered by compare().  A      *)
(* queue is [heap, creationCounter]; heap indices are 0-based as in the    *)
(* code (heap[i] is the sequence element i + 1).                           *)
(***************************************************************************)
NewEventQueue == [heap |-> <<>>, creationCounter |-> 0]

\* compare() looking at the time only.
compareTimeOnly(a, b) == a.time - b.time


compare(a, b) ==
  IF a.time # b.time THEN a.time - b.time ELSE a.creationTime - b.creationTime

swap(heap, i, j) == [heap EXCEPT ![i + 1] = heap[j + 1], ![j + 1] = heap[i + 1]]

RECURSIVE bubbleUp(_, _)
bubbleUp(heap, index) ==
  IF index > 0
  THEN LET parentIndex == (index - 1) \div 2
       IN IF compare(heap[index + 1], heap[parentIndex + 1]) >= 0 THEN heap
          ELSE bubbleUp(swap(heap, index, parentIndex), parentIndex)
  ELSE heap

RECURSIVE bubbleDown(_, _)
bubbleDown(heap, currentIndex) ==
  LET length == Len(heap)
      leftChild == 2 * currentIndex + 1
      rightChild == 2 * currentIndex + 2
      s1 == IF leftChild < length /\ compare(heap[leftChild + 1], heap[currentIndex + 1]) < 0
            THEN leftChild ELSE currentIndex
      smallest == IF rightChild < length /\ compare(heap[rightChild + 1], heap[s1 + 1]) < 0
                  THEN rightChild ELSE s1
  IN IF smallest = currentIndex THEN heap
     ELSE bubbleDown(swap(heap, currentIndex, smallest), smallest)

RECURSIVE rebuildFrom(_, _)
rebuildFrom(heap, i) ==
  IF i < 0 THEN heap ELSE rebuildFrom(bubbleDown(heap, i), i - 1)

\* A filter that leaves the array as it is, without restoring the heap.
rebuildHeapSkipped(heap) == heap

rebuildHeap(heap) == rebuildFrom(heap, (Len(heap) \div 2) - 1)

push(q, event) ==
  LET fullEvent == [time |-> event.time,
                    creationTime |-> q.creationCounter,
                    gateId |-> event.gateId,
                    portIndex |-> event.portIndex,
                    newState |-> event.newState]
      pushed == Append(q.heap, fullEvent)
  IN [heap |-> bubbleUp(pushed, Len(pushed) - 1),
      creationCounter |-> q.creationCounter + 1]

\* pop() on a non-empty queue: the queue afterwards (the result is peek).
pop(q) ==
  IF Len(q.heap) = 0 THEN q
  ELSE IF Len(q.heap) = 1 THEN [q EXCEPT !.heap = <<>>]
  ELSE LET last == q.heap[Len(q.heap)]
           moved == [SubSeq(q.heap, 1, Len(q.heap) - 1) EXCEPT ![1] = last]
       IN [q EXCEPT !.heap = bubbleDown(moved, 0)]

\* peek() on a non-empty queue
peek(q) == q.heap[1]

isEmpty(q) == Len(q.heap) = 0

size(q) == Len(q.heap)

clear(q) == NewEventQueue

RECURSIVE FilterOut(_, _)
FilterOut(heap, gateId) ==
  IF heap = <<>> THEN <<>>
  ELSE IF Head(heap).gateId # gateId THEN <<Head(heap)>> \o FilterOut(Tail(heap), gateId)
       ELSE FilterOut(Tail(heap), gateId)

removeEventsForGate(q, gateId) ==
  [q EXCEPT !.heap = rebuildHeap(FilterOut(q.heap, gateId))]

(***************************************************************************)
(* SimulationEngine.ts.  An engine is a record of its fields; the gates    *)
(* and wires Maps keep insertion order.  Gate objects live in objs, keyed  *)
(* by reference: the gates Map and the clockGates / pulseGates arrays hold *)
(* references, so an object can stay in an array after the Map entry of    *)
(* its id has been overwritten.                                            *)
(***************************************************************************)
maxEventsPerStep == 10000

\* new SimulationEngine(config): config.maxEventsPerStep is kept in the engine.
SimulationEngine(config) ==
  [objs |-> EmptyRec,
   gates |-> <<>>,
   wires |-> <<>>,
   eventQueue |-> NewEventQueue,
   currentTime |-> 0,
   running |-> FALSE,
   paused |-> FALSE,
   clockGates |-> <<>>,
   pulseGates |-> <<>>,
   maxEventsPerStep |-> Nullish(Get(config, "maxEventsPerStep"), maxEventsPerStep)]

\* new SimulationEngine()
NewEngine == SimulationEngine(EmptyRec)

\* Allocation of a fresh object reference.
NewRef(e) ==
  CHOOSE n \in 0..Cardinality(DOMAIN e.objs) :
    n \notin DOMAIN e.objs /\ \A m \in 0..(n - 1) : m \in DOMAIN e.objs

\* Objects no longer referenced by the Map or the arrays are garbage.
Collect(e) ==
  LET live == {e.gates[i].val : i \in 1..Len(e.gates)}
                \cup {e.clockGates[i] : i \in 1..Len(e.clockGates)}
                \cup {e.pulseGates[i] : i \in 1..Len(e.pulseGates)}
  IN [e EXCEPT !.objs = [r \in live |-> e.objs[r]]]

\* this.gates.get(id), for an id the Map has
GateOf(e, id) == e.objs[MapGet(e.gates, id)]

\* A mutation of the gate object the Map holds for id.
WithGate(e, id, g) == [e EXCEPT !.objs = Put(@, MapGet(e.gates, id), g)]

scheduleGateEvaluation(e, gateId, time) ==
  [e EXCEPT !.eventQueue =
     push(@, [time |-> time, gateId |-> gateId, portIndex |-> 0 - 1, newState |-> UNKNOWN])]

\* The states of the wires whose target is (gateId, portIndex), in Map order.
RECURSIVE TargetStates(_, _, _, _)
TargetStates(wires, i, gateId, portIndex) ==
  IF i > Len(wires) THEN <<>>
  ELSE (IF wires[i].val.targetGateId = gateId /\ wires[i].val.targetPortIndex = portIndex
        THEN <<wires[i].val.state>> ELSE <<>>)
       \o TargetStates(wires, i + 1, gateId, portIndex)

\* A propagateWireState that updates the wire and the target's input but
\* schedules no evaluation of the target.
propagateWireStateUnscheduled(e, wireId, newState) ==
  IF ~MapHas(e.wires, wireId) THEN e
  ELSE LET wire == MapGet(e.wires, wireId)
       IN IF wire.state = newState THEN e
          ELSE LET e1 == [e EXCEPT !.wires =
                            MapSet(@, wireId, [wire EXCEPT !.state = newState])]
               IN IF MapHas(e1.gates, wire.targetGateId)
                  THEN WithGate(e1, wire.targetGateId,
                                setInput(GateOf(e1, wire.targetGateId), wire.targetPortIndex,
                                         resolveWireState(TargetStates(e1.wires, 1,
                                                                       wire.targetGateId,
                                                                       wire.targetPortIndex))))
                  ELSE e1


propagateWireState(e, wireId, newState) ==
  IF ~MapHas(e.wires, wireId) THEN e
  ELSE LET wire == MapGet(e.wires, wireId)
       IN IF wire.state = newState THEN e
          ELSE LET e1 == [e EXCEPT !.wires =
                            MapSet(@, wireId, [wire EXCEPT !.state = newState])]
               IN IF MapHas(e1.gates, wire.targetGateId)
                  THEN LET inputStates == TargetStates(e1.wires, 1, wire.targetGateId,
                                                       wire.targetPortIndex)
                           resolvedState == resolveWireState(inputStates)
                           e2 == WithGate(e1, wire.targetGateId,
                                          setInput(GateOf(e1, wire.targetGateId),
                                                   wire.targetPortIndex, resolvedState))
                       IN scheduleGateEvaluation(e2, wire.targetGateId, e2.currentTime + 1)
                  ELSE e1

\* A new wire record and the connection of both endpoints (the part shared
\* by initialize and addWire).
ConnectWire(e, wireState) ==
  LET e1 == [e EXCEPT !.wires =
               MapSet(@, wireState.id,
                      [sourceGateId |-> wireState.sourceGateId,
                       sourcePortIndex |-> wireState.sourcePortIndex,
                       targetGateId |-> wireState.targetGateId,
                       targetPortIndex |-> wireState.targetPortIndex,
                       state |-> UNKNOWN])]
      e2 == IF MapHas(e1.gates, wireState.sourceGateId)
            THEN WithGate(e1, wireState.sourceGateId,
                          connectOutputWire(GateOf(e1, wireState.sourceGateId),
                                            wireState.sourcePortIndex, wireState.id))
            ELSE e1
  IN IF MapHas(e2.gates, wireState.targetGateId)
     THEN WithGate(e2, wireState.targetGateId,
                   connectInputWire(GateOf(e2, wireState.targetGateId),
                                    wireState.targetPortIndex, wireState.id))
     ELSE e2

\* gates.set(id, gate) and the clock / pulse tracking (initialize, addGate)
RegisterGate(e, gateState) ==
  LET gate == createGateFromState(gateState)
      ref == NewRef(e)
      e1 == [e EXCEPT !.objs = Put(@, ref, gate),
                      !.gates = MapSet(@, gateState.id, ref)]
  IN IF gate.type = "CLOCK" THEN [e1 EXCEPT !.clockGates = Append(@, ref)]
     ELSE IF gate.type = "PULSE" THEN [e1 EXCEPT !.pulseGates = Append(@, ref)]
     ELSE e1

\* The first descriptor whose type createGateFromState rejects (0: none).
FirstThrow(gateStates) ==
  IF \E i \in 1..Len(gateStates) : gateStates[i].type \notin KnownTypes
  THEN CHOOSE i \in 1..Len(gateStates) :
         /\ gateStates[i].type \notin KnownTypes
         /\ \A j \in 1..(i - 1) : gateStates[j].type \in KnownTypes
  ELSE 0

RECURSIVE InitGates(_, _, _, _)
InitGates(e, gateStates, i, n) ==
  IF i > n THEN e ELSE InitGates(RegisterGate(e, gateStates[i]), gateStates, i + 1, n)

RECURSIVE InitWires(_, _, _)
InitWires(e, wireStates, i) ==
  IF i > Len(wireStates) THEN e
  ELSE InitWires(ConnectWire(e, wireStates[i]), wireStates, i + 1)

RECURSIVE ScheduleAllReversed(_, _, _)
\* The initial evaluations scheduled from the last gate of the Map to the first.
ScheduleAllReversed(e, i, time) ==
  IF i > Len(e.gates) THEN e
  ELSE ScheduleAllReversed(
         scheduleGateEvaluation(e, e.objs[e.gates[Len(e.gates) + 1 - i].val].id, time),
         i + 1, time)

RECURSIVE ScheduleAll(_, _, _)
\* for (const gate of this.gates.values()) scheduleGateEvaluation(gate.id, time)
ScheduleAll(e, i, time) ==
  IF i > Len(e.gates) THEN e
  ELSE ScheduleAll(scheduleGateEvaluation(e, e.objs[e.gates[i].val].id, time), i + 1, time)

\* initialize(): an unknown type throws out of the gate loop, leaving the
\* cleared engine with the gates created so far.
initialize(e, gateStates, wireStates) ==
  LET cleared == [e EXCEPT !.objs = EmptyRec, !.gates = <<>>, !.wires = <<>>,
                           !.eventQueue = clear(@), !.currentTime = 0,
                           !.clockGates = <<>>, !.pulseGates = <<>>]
      bad == FirstThrow(gateStates)
  IN IF bad # 0 THEN Collect(InitGates(cleared, gateStates, 1, bad - 1))
     ELSE ScheduleAll(Collect(InitWires(InitGates(cleared, gateStates, 1, Len(gateStates)),
                                        wireStates, 1)), 1, 0)

addGate(e, gateState) ==
  IF gateState.type \notin KnownTypes THEN e
  ELSE Collect(scheduleGateEvaluation(RegisterGate(e, gateState), gateState.id,
                                      e.currentTime))

\* removeWire scheduling the re-evaluation of the target two ticks ahead.
removeWireLate(e, wireId) ==
  IF ~MapHas(e.wires, wireId) THEN e
  ELSE LET wire == MapGet(e.wires, wireId)
           e1 == IF MapHas(e.gates, wire.sourceGateId)
                 THEN WithGate(e, wire.sourceGateId,
                               disconnectOutputWire(GateOf(e, wire.sourceGateId),
                                                    wire.sourcePortIndex, wireId))
                 ELSE e
           e2 == IF MapHas(e1.gates, wire.targetGateId)
                 THEN scheduleGateEvaluation(
                        WithGate(e1, wire.targetGateId,
                                 disconnectInputWire(GateOf(e1, wire.targetGateId),
                                                     wire.targetPortIndex, wireId)),
                        wire.targetGateId, e1.currentTime + 2)
                 ELSE e1
       IN [e2 EXCEPT !.wires = MapDelete(@, wireId)]

removeWire(e, wireId) ==
  IF ~MapHas(e.wires, wireId) THEN e
  ELSE LET wire == MapGet(e.wires, wireId)
           e1 == IF MapHas(e.gates, wire.sourceGateId)
                 THEN WithGate(e, wire.sourceGateId,
                               disconnectOutputWire(GateOf(e, wire.sourceGateId),
                                                    wire.sourcePortIndex, wireId))
                 ELSE e
           e2 == IF MapHas(e1.gates, wire.targetGateId)
                 THEN scheduleGateEvaluation(
                        WithGate(e1, wire.targetGateId,
                                 disconnectInputWire(GateOf(e1, wire.targetGateId),
                                                     wire.targetPortIndex, wireId)),
                        wire.targetGateId, e1.currentTime + 1)
                 ELSE e1
       IN [e2 EXCEPT !.wires = MapDelete(@, wireId)]

RECURSIVE WiresOf(_, _, _)
\* removeGate's wiresToRemove
WiresOf(wires, i, gateId) ==
  IF i > Len(wires) THEN <<>>
  ELSE (IF wires[i].val.sourceGateId = gateId \/ wires[i].val.targetGateId = gateId
        THEN <<wires[i].key>> ELSE <<>>) \o WiresOf(wires, i + 1, gateId)

RECURSIVE RemoveWires(_, _)
RemoveWires(e, wireIds) ==
  IF wireIds = <<>> THEN e ELSE RemoveWires(removeWire(e, Head(wireIds)), Tail(wireIds))

removeGate(e, gateId) ==
  IF ~MapHas(e.gates, gateId) THEN e
  ELSE LET ref == MapGet(e.gates, gateId)
           gate == e.objs[ref]
           e1 == IF gate.type = "CLOCK"
                 THEN [e EXCEPT !.clockGates = RemoveFirst(@, ref)]
                 ELSE IF gate.type = "PULSE"
                 THEN [e EXCEPT !.pulseGates = RemoveFirst(@, ref)]
                 ELSE e
           e2 == RemoveWires(e1, WiresOf(e1.wires, 1, gateId))
           e3 == [e2 EXCEPT !.eventQueue = removeEventsForGate(@, gateId)]
       IN Collect([e3 EXCEPT !.gates = MapDelete(@, gateId)])

\* addWire without the propagation of the source output.
addWireUnpropagated(e, wireState) == ConnectWire(e, wireState)

addWire(e, wireState) ==
  LET e1 == ConnectWire(e, wireState)
  IN IF MapHas(e1.gates, wireState.sourceGateId) /\ MapHas(e1.gates, wireState.targetGateId)
     THEN LET sourceOutputs == getOutputStates(GateOf(e1, wireState.sourceGateId))
              outputState == Nullish(At(sourceOutputs, wireState.sourcePortIndex), UNKNOWN)
          IN propagateWireState(e1, wireState.id, outputState)
     ELSE e1

toggleInput(e, gateId) ==
  IF MapHas(e.gates, gateId) /\ GateOf(e, gateId).type = "TOGGLE"
  THEN scheduleGateEvaluation(WithGate(e, gateId, toggle(GateOf(e, gateId))),
                              gateId, e.currentTime)
  ELSE e

setInputValue(e, gateId, value) ==
  IF MapHas(e.gates, gateId) /\ GateOf(e, gateId).type = "TOGGLE"
  THEN scheduleGateEvaluation(WithGate(e, gateId, setValue(GateOf(e, gateId), value)),
                              gateId, e.currentTime)
  ELSE e

triggerPulse(e, gateId) ==
  IF MapHas(e.gates, gateId) /\ GateOf(e, gateId).type = "PULSE"
  THEN scheduleGateEvaluation(
         WithGate(e, gateId, trigger(GateOf(e, gateId), e.currentTime)),
         gateId, e.currentTime)
  ELSE e

(***************************************************************************)
(* processTimeStep and step.                                               *)
(***************************************************************************)
RECURSIVE UpdateClocks(_, _)
UpdateClocks(e, i) ==
  IF i > Len(e.clockGates) THEN e
  ELSE LET ref == e.clockGates[i]
           clock == e.objs[ref]
           oldState == Nullish(At(getOutputStates(clock), 0), UNKNOWN)
           newState == ClockValue(clock, e.currentTime)
           e1 == [e EXCEPT !.objs = Put(@, ref, tick(clock, e.currentTime))]
       IN UpdateClocks(IF oldState # newState
                       THEN scheduleGateEvaluation(e1, clock.id, e1.currentTime)
                       ELSE e1, i + 1)

RECURSIVE CheckPulses(_, _)
CheckPulses(e, i) ==
  IF i > Len(e.pulseGates) THEN e
  ELSE LET ref == e.pulseGates[i]
           pulse == e.objs[ref]
           e1 == [e EXCEPT !.objs = Put(@, ref, checkPulseEnd(pulse, e.currentTime))]
       IN CheckPulses(IF PulseEnds(pulse, e.currentTime)
                      THEN scheduleGateEvaluation(e1, pulse.id, e1.currentTime)
                      ELSE e1, i + 1)

RECURSIVE PropagateOutput(_, _, _, _, _)
\* for (const [wireId, wire] of this.wires) if the wire leaves (gateId, i)
PropagateOutput(e, w, gateId, i, newState) ==
  IF w > Len(e.wires) THEN e
  ELSE PropagateOutput(
         IF e.wires[w].val.sourceGateId = gateId /\ e.wires[w].val.sourcePortIndex = i
         THEN propagateWireState(e, e.wires[w].key, newState)
         ELSE e,
         w + 1, gateId, i, newState)

RECURSIVE PropagateChanges(_, _, _, _, _)
\* for (let i = 0; i < result.outputs.length; i++)
PropagateChanges(e, gateId, previousOutputs, outputs, i) ==
  IF i >= Len(outputs) THEN e
  ELSE LET oldState == Nullish(At(previousOutputs, i), UNKNOWN)
           newState == Nullish(At(outputs, i), UNKNOWN)
       IN PropagateChanges(
            IF oldState # newState THEN PropagateOutput(e, 1, gateId, i, newState) ELSE e,
            gateId, previousOutputs, outputs, i + 1)

\* The event loop after gate.evaluate(): updatePreviousInputs and the
\* propagation of the outputs that changed.
AfterEvaluate(e, gate, result) ==
  PropagateChanges(WithGate(e, gate.id, updatePreviousInputs(result.gate)),
                   gate.id, getOutputStates(gate), result.outputs, 0)

\* The body of the event loop for one popped event.
ProcessEvent(e, event) ==
  IF ~MapHas(e.gates, event.gateId) THEN e
  ELSE AfterEvaluate(e, GateOf(e, event.gateId), evaluate(GateOf(e, event.gateId)))

RECURSIVE ProcessEventsUncapped(_, _)
\* The event loop without the maxEventsPerStep test.
ProcessEventsUncapped(e, eventsProcessed) ==
  IF ~isEmpty(e.eventQueue) /\ peek(e.eventQueue).time <= e.currentTime
  THEN ProcessEventsUncapped(ProcessEvent([e EXCEPT !.eventQueue = pop(@)],
                                          peek(e.eventQueue)),
                             eventsProcessed + 1)
  ELSE e

RECURSIVE ProcessEvents(_, _)
ProcessEvents(e, eventsProcessed) ==
  IF ~isEmpty(e.eventQueue) /\ eventsProcessed < e.maxEventsPerStep
       /\ peek(e.eventQueue).time <= e.currentTime
  THEN ProcessEvents(ProcessEvent([e EXCEPT !.eventQueue = pop(@)], peek(e.eventQueue)),
                     eventsProcessed + 1)
  ELSE e

RECURSIVE EvaluatedBy(_, _)
\* The ids of the gates the event loop of processTimeStep evaluates, in order.
EvaluatedBy(e, eventsProcessed) ==
  IF ~isEmpty(e.eventQueue) /\ eventsProcessed < e.maxEventsPerStep
       /\ peek(e.eventQueue).time <= e.currentTime
  THEN (IF MapHas(e.gates, peek(e.eventQueue).gateId)
        THEN <<peek(e.eventQueue).gateId>> ELSE <<>>)
       \o EvaluatedBy(ProcessEvent([e EXCEPT !.eventQueue = pop(@)], peek(e.eventQueue)),
                      eventsProcessed + 1)
  ELSE <<>>

Max(a, b) == IF a >= b THEN a ELSE b

\* The end of processTimeStep taking the time of the next event without
\* Math.max.
AdvanceTimeToHead(e) ==
  IF ~isEmpty(e.eventQueue)
  THEN [e EXCEPT !.currentTime = peek(e.eventQueue).time]
  ELSE [e EXCEPT !.currentTime = e.currentTime + 1]


\* The end of processTimeStep: advance time to the next event or by 1.
AdvanceTime(e) ==
  IF ~isEmpty(e.eventQueue)
  THEN [e EXCEPT !.currentTime = Max(e.currentTime + 1, peek(e.eventQueue).time)]
  ELSE [e EXCEPT !.currentTime = e.currentTime + 1]

processTimeStep(e) == AdvanceTime(ProcessEvents(CheckPulses(UpdateClocks(e, 1), 1), 0))

RECURSIVE StepLoop(_, _, _)
\* The loop of step(count) from iteration i, and the rest of an iteration
\* after its processTimeStep: the engine afterwards and the number of
\* processTimeStep calls.
AfterTimeStep(e, i, count) ==
  IF isEmpty(e.eventQueue) THEN [engine |-> e, iterations |-> i + 1]
  ELSE StepLoop(e, i + 1, count)

StepLoop(e, i, count) ==
  IF i < count THEN AfterTimeStep(processTimeStep(e), i, count)
  ELSE [engine |-> e, iterations |-> i]

step(e, count) == StepLoop(e, 0, count)

run(e) == [e EXCEPT !.running = TRUE, !.paused = FALSE]

\* pause() clearing running instead of setting paused.
pauseClearsRunning(e) == [e EXCEPT !.running = FALSE]

pause(e) == [e EXCEPT !.paused = TRUE]

RECURSIVE ResetGates(_, _)
ResetGates(e, i) ==
  IF i > Len(e.gates) THEN e
  ELSE ResetGates([e EXCEPT !.objs = Put(@, e.gates[i].val, reset(e.objs[e.gates[i].val]))],
                  i + 1)

\* reset() without this.eventQueue.clear().
engineResetKeepsQueue(e) ==
  LET e1 == ResetGates([e EXCEPT !.currentTime = 0], 1)
      e2 == [e1 EXCEPT !.wires =
               [i \in 1..Len(e1.wires) |->
                  [e1.wires[i] EXCEPT !.val.state = UNKNOWN]]]
  IN ScheduleAll(e2, 1, 0)

\* SimulationEngine.reset
engineReset(e) ==
  LET e1 == ResetGates([e EXCEPT !.currentTime = 0, !.eventQueue = clear(@)], 1)
      e2 == [e1 EXCEPT !.wires =
               [i \in 1..Len(e1.wires) |->
                  [e1.wires[i] EXCEPT !.val.state = UNKNOWN]]]
  IN ScheduleAll(e2, 1, 0)

stop(e) == [e EXCEPT !.running = FALSE, !.paused = FALSE]

isRunning(e) == e.running /\ ~e.paused

isPaused(e) == e.paused

getSnapshot(e) ==
  [time |-> e.currentTime,
   gates |-> [k \in 1..Len(e.gates) |->
                LET gate == e.objs[e.gates[k].val]
                IN [id |-> e.gates[k].key, type |-> gate.type,
                    inputStates |-> getInputStates(gate),
                    outputStates |-> getOutputStates(gate),
                    internalState |-> gate.internalState]],
   wires |-> [k \in 1..Len(e.wires) |->
                [id |-> e.wires[k].key, state |-> e.wires[k].val.state,
                 sourceGateId |-> e.wires[k].val.sourceGateId,
                 sourcePortIndex |-> e.wires[k].val.sourcePortIndex,
                 targetGateId |-> e.wires[k].val.targetGateId,
                 targetPortIndex |-> e.wires[k].val.targetPortIndex]]]

(***************************************************************************)
(* The state.  engine is the SimulationEngine instance (of the test, or of *)
(* the worker once engineIsNull is FALSE); the other variables are the     *)
(* worker's module variables, its pending timers, the wall clock, and the  *)
(* responses posted by the last handler.  last and watch record the last   *)
(* operation for the properties below.                                     *)
(***************************************************************************)
VARIABLES engine, engineIsNull, animFrameId, msPerTick, accumulator, lastTime,
          timers, now, outbox, last, watch

vars == <<engine, engineIsNull, animFrameId, msPerTick, accumulator, lastTime,
          timers, now, outbox, last, watch>>

workerVars == <<engineIsNull, animFrameId, msPerTick, accumulator, lastTime,
                timers, now, outbox>>

\* Bounds of the exploration.
MaxTime == 3
MaxSeq == 6
MaxOrphans == 1
MaxCount == 2
MaxConn == 2
MaxFrames == 1
MaxQueue == 5
MaxCapSeq == 12
MaxCapTime == 6
MaxClockTime == 8
MaxSettleTime == 7
MaxSettleSeq == 12
MaxTriTime == 8
MaxTriSeq == 17
MaxEdges == 17
MaxSources == 2
MaxRefPushes == 4
MaxDriverNow == 350
MaxGlitchTime == 9
MaxGlitchSeq == 26
MaxLoopFrames == 4

NoWatch == [gate |-> "", port |-> 0, steps |-> 0]

\* The record of the last call: its name and arguments, the iterations a
\* step ran and, for a reset, what the engine was like before it.
Op(name, id, count, iterations) ==
  [op |-> name, id |-> id, count |-> count, iterations |-> iterations,
   time |-> 0, pending |-> 0, changed |-> FALSE]

\* Descriptors.
GateState(id, type, nIn, nOut) ==
  [id |-> id, type |-> type,
   inputStates |-> [i \in 1..nIn |-> UNKNOWN],
   outputStates |-> [i \in 1..nOut |-> UNKNOWN],
   hasInternalState |-> FALSE, internalState |-> EmptyRec]

WithInternal(gateState, internalState) ==
  [gateState EXCEPT !.hasInternalState = TRUE, !.internalState = internalState]

WireState(id, sourceGateId, sourcePortIndex, targetGateId, targetPortIndex) ==
  [id |-> id, state |-> UNKNOWN,
   sourceGateId |-> sourceGateId, sourcePortIndex |-> sourcePortIndex,
   targetGateId |-> targetGateId, targetPortIndex |-> targetPortIndex]

Init ==
  /\ engine = NewEngine
  /\ engineIsNull = FALSE
  /\ animFrameId = 0
  /\ msPerTick = 16
  /\ accumulator = 0
  /\ lastTime = 0
  /\ timers = {}
  /\ now = 0
  /\ outbox = <<>>
  /\ last = Op("new", "", 0, 0)
  /\ watch = NoWatch

\* The guards that keep the exploration finite: the sequence counter, the
\* number of orphaned gate objects and the length of a port's connection list.
CanPush == engine.eventQueue.creationCounter < MaxSeq

\* A gate object outside the Map is one an addGate with a used id left in a
\* register.
CanAllocate == Cardinality(DOMAIN engine.objs) - Len(engine.gates) < MaxOrphans

CanConnect ==
  \A r \in DOMAIN engine.objs :
    /\ \A i \in 1..Len(engine.objs[r].inputs) :
         Len(engine.objs[r].inputs[i].connectedWires) < MaxConn
    /\ \A i \in 1..Len(engine.objs[r].outputs) :
         Len(engine.objs[r].outputs[i].connectedWires) < MaxConn

(***************************************************************************)
(* Calls of the engine's methods.                                          *)
(***************************************************************************)
Initialize(netlist) ==
  /\ engine' = initialize(engine, netlist.gates, netlist.wires)
  /\ last' = Op("initialize", "", 0, 0)
  /\ watch' = NoWatch
  /\ UNCHANGED workerVars

AddGate(gateState) ==
  /\ CanPush
  /\ CanAllocate
  /\ engine' = addGate(engine, gateState)
  /\ last' = Op("addGate", gateState.id, 0, 0)
  /\ watch' = NoWatch
  /\ UNCHANGED workerVars

RemoveGate(gateId) ==
  /\ CanPush
  /\ engine' = removeGate(engine, gateId)
  /\ last' = Op("removeGate", gateId, 0, 0)
  /\ watch' = NoWatch
  /\ UNCHANGED workerVars

AddWire(wireState) ==
  /\ CanPush
  /\ CanConnect
  /\ engine' = addWire(engine, wireState)
  /\ last' = Op("addWire", wireState.id, 0, 0)
  /\ watch' = NoWatch
  /\ UNCHANGED workerVars

RemoveWire(wireId) ==
  /\ CanPush
  /\ engine' = removeWire(engine, wireId)
  /\ last' = Op("removeWire", wireId, 0, 0)
  /\ watch' = IF MapHas(engine.wires, wireId)
                   /\ MapHas(engine.gates, MapGet(engine.wires, wireId).targetGateId)
              THEN [gate |-> MapGet(engine.wires, wireId).targetGateId,
                    port |-> MapGet(engine.wires, wireId).targetPortIndex,
                    steps |-> 0]
              ELSE NoWatch
  /\ UNCHANGED workerVars

ToggleInput(gateId) ==
  /\ CanPush
  /\ engine' = toggleInput(engine, gateId)
  /\ last' = Op("toggleInput", gateId, 0, 0)
  /\ watch' = NoWatch
  /\ UNCHANGED workerVars

SetInputValue(gateId, value) ==
  /\ CanPush
  /\ engine' = setInputValue(engine, gateId, value)
  /\ last' = Op("setInputValue", gateId, 0, 0)
  /\ watch' = NoWatch
  /\ UNCHANGED workerVars

TriggerPulse(gateId) ==
  /\ CanPush
  /\ engine' = triggerPulse(engine, gateId)
  /\ last' = Op("triggerPulse", gateId, 0, 0)
  /\ watch' = NoWatch
  /\ UNCHANGED workerVars

Step(count) ==
  /\ CanPush
  /\ engine.currentTime + count <= MaxTime
  /\ \E r \in {step(engine, count)} :
       /\ engine' = r.engine
       /\ last' = Op("step", "", count, r.iterations)
       /\ watch' = IF watch.gate = "" THEN watch
                   ELSE [watch EXCEPT !.steps = IF @ + r.iterations >= 2 THEN 2
                                                ELSE @ + r.iterations]
  /\ UNCHANGED workerVars

\* The internal state the constructor of g's class leaves: that of a gate
\* made from a descriptor without internalState.
ConstructorDefault(g) ==
  createGateFromState(GateState(g.id, g.type, Len(g.inputs), Len(g.outputs))).internalState

\* Some component of e has left the state its constructor gave it.
Changed(e) ==
  \E k \in 1..Len(e.gates) :
    LET g == e.objs[e.gates[k].val]
    IN \/ g.internalState # ConstructorDefault(g)
       \/ \E i \in 1..Len(g.outputs) : g.outputs[i].state # UNKNOWN

OpReset(e) ==
  [Op("reset", "", 0, 0) EXCEPT
     !.time = e.currentTime, !.pending = size(e.eventQueue), !.changed = Changed(e)]

Reset ==
  /\ engine' = engineReset(engine)
  /\ last' = OpReset(engine)
  /\ watch' = NoWatch
  /\ UNCHANGED workerVars

(***************************************************************************)
(* Spec: a TOGGLE and a NOT gate, one wire between them, under every       *)
(* mutation, stimulus and step call.                                       *)
(***************************************************************************)
ToggleT == GateState("t", "TOGGLE", 0, 1)
NotN == GateState("n", "NOT", 1, 1)
WireTN == WireState("w1", "t", 0, "n", 0)

GatePool == {ToggleT, NotN}
WirePool == {WireTN}
Netlists == {[gates |-> <<>>, wires |-> <<>>],
             [gates |-> <<ToggleT, NotN>>, wires |-> <<WireTN>>]}
GateIds == {"t", "n"}
WireIds == {"w1"}
SetValues == {ONE, HI_Z}

\* The renderer posts addGate and addWire only for ids the netlist does not
\* hold yet (App.tsx, the diff against prevNodesRef and prevEdgesRef).
Next ==
  \/ \E netlist \in Netlists : Initialize(netlist)
  \/ \E gateState \in GatePool :
       ~MapHas(engine.gates, gateState.id) /\ AddGate(gateState)
  \/ \E gateId \in GateIds : RemoveGate(gateId)
  \/ \E wireState \in WirePool :
       ~MapHas(engine.wires, wireState.id) /\ AddWire(wireState)
  \/ \E wireId \in WireIds : RemoveWire(wireId)
  \/ ToggleInput("t")
  \/ \E value \in SetValues : SetInputValue("t", value)
  \/ \E count \in 1..MaxCount : Step(count)
  \/ Reset

Spec == Init /\ [][Next]_vars

(***************************************************************************)
(* SpecKernel: the engine's methods called with arbitrary ids (an id may   *)
(* be added twice) on netlists of the time-driven sources and the gates    *)
(* that hold state.                                                        *)
(***************************************************************************)
ClockC == WithInternal(GateState("c", "CLOCK", 0, 1), ("period" :> 2))
PulseP == GateState("p", "PULSE", 0, 1)
FlipFlopF == WithInternal(GateState("f", "D_FLIPFLOP", 2, 2), ("q" :> ONE))
CounterK ==
  WithInternal(GateState("k", "COUNTER_4BIT", 9, 5),
               ("bits" :> <<ONE, ONE, ZERO, ZERO>> @@ "carry" :> ONE))
RamM ==
  WithInternal(GateState("m", "RAM_16X4", 10, 4),
               ("memory" :> (3 :> <<ONE, ONE, ONE, ONE>>)))
RomR ==
  WithInternal(GateState("r", "ROM_16X4", 5, 4),
               ("memory" :> (5 :> <<ONE, ZERO, ONE, ZERO>>)))
WirePF == WireState("wp", "p", 0, "f", 1)

KernelNetlists ==
  {[gates |-> <<>>, wires |-> <<>>],
   [gates |-> <<PulseP, FlipFlopF>>, wires |-> <<WirePF>>],
   [gates |-> <<ClockC, CounterK, RamM, RomR>>, wires |-> <<>>]}
KernelGatePool == {ClockC, PulseP}
KernelGateIds == {"c", "p", "f"}

NextKernel ==
  \/ \E netlist \in KernelNetlists : Initialize(netlist)
  \/ \E gateState \in KernelGatePool : AddGate(gateState)
  \/ \E gateState \in KernelGatePool : RemoveGate(gateState.id)
  \/ TriggerPulse("p")
  \/ \E count \in 1..MaxCount : Step(count)
  \/ Reset

SpecKernel == Init /\ [][NextKernel]_vars

(***************************************************************************)
(* SpecWorker: the worker.  Its state after the module has loaded, one     *)
(* action per message type of onmessage, the timer callback                *)
(* simulationLoop, and the passing of wall-clock time (in milliseconds).   *)
(***************************************************************************)
FRAME_INTERVAL == 16
MAX_STEPS_PER_FRAME == 100

Ready == [type |-> "ready"]

StateUpdate(e) ==
  LET snapshot == getSnapshot(e)
  IN [type |-> "stateUpdate", gates |-> snapshot.gates, wires |-> snapshot.wires,
      time |-> snapshot.time]

\* sendStateUpdate(): the responses it posts
sendStateUpdate(isNull, e) == IF isNull THEN <<>> ELSE <<StateUpdate(e)>>

InitWorker ==
  /\ engine = NewEngine
  /\ engineIsNull = TRUE
  /\ animFrameId = 0
  /\ msPerTick = 16
  /\ accumulator = 0
  /\ lastTime = 0
  /\ timers = {}
  /\ now = 0
  /\ outbox = <<Ready>>
  /\ last = Op("load", "", 0, 0)
  /\ watch = NoWatch

\* stopLoop() forgetting the handle without clearTimeout.
StopLoopForgets ==
  /\ timers' = timers
  /\ animFrameId' = 0

\* stopLoop(): clearTimeout and animFrameId = null
StopLoop ==
  /\ timers' = {timer \in timers : timer.id # animFrameId}
  /\ animFrameId' = 0

\* stopSimulation(): the engine after engine.pause(), if there is one
Stopped == IF engineIsNull THEN engine ELSE pause(engine)

\* A handler that calls an engine method f and posts a state update.
Handle(name, id, e) ==
  /\ engine' = (IF engineIsNull THEN engine ELSE e)
  /\ outbox' = sendStateUpdate(engineIsNull, engine')
  /\ last' = Op(name, id, 0, 0)
  /\ watch' = NoWatch
  /\ UNCHANGED <<engineIsNull, animFrameId, msPerTick, accumulator, lastTime, timers, now>>

\* The id of the descriptor at which initialize throws ("": it does not).
RejectedId(gateStates) ==
  IF FirstThrow(gateStates) = 0 THEN "" ELSE gateStates[FirstThrow(gateStates)].id

\* case 'init'.  The engine is replaced before initialize runs; when
\* initialize throws, the handler ends there and posts nothing.
OnInit(netlist) ==
  /\ StopLoop
  /\ engine' = initialize(NewEngine, netlist.gates, netlist.wires)
  /\ engineIsNull' = FALSE
  /\ outbox' = IF FirstThrow(netlist.gates) = 0 THEN <<StateUpdate(engine'), Ready>> ELSE <<>>
  /\ last' = Op("init", RejectedId(netlist.gates), 0, 0)
  /\ watch' = NoWatch
  /\ UNCHANGED <<msPerTick, accumulator, lastTime, now>>

\* startSimulation(): engine.run() and startLoop()
OnRun ==
  /\ IF engineIsNull
     THEN UNCHANGED <<engine, accumulator, lastTime, animFrameId, timers>>
     ELSE /\ engine' = run(engine)
          /\ accumulator' = 0
          /\ lastTime' = now
          /\ IF animFrameId = 0
             THEN /\ animFrameId' = 1
                  /\ timers' = timers \cup {[id |-> 1, due |-> now + FRAME_INTERVAL]}
             ELSE UNCHANGED <<animFrameId, timers>>
  /\ outbox' = <<>>
  /\ last' = Op("run", "", 0, 0)
  /\ watch' = NoWatch
  /\ UNCHANGED <<engineIsNull, msPerTick, now>>

OnPause ==
  /\ StopLoop
  /\ engine' = Stopped
  /\ outbox' = sendStateUpdate(engineIsNull, engine')
  /\ last' = Op("pause", "", 0, 0)
  /\ watch' = NoWatch
  /\ UNCHANGED <<engineIsNull, msPerTick, accumulator, lastTime, now>>

\* count is the message's count, Undefined when the message has none
OnStep(count) ==
  /\ engineIsNull \/ (CanPush /\ engine.currentTime + Nullish(count, 1) <= MaxTime)
  /\ Handle("step", "", step(engine, Nullish(count, 1)).engine)

OnReset ==
  /\ StopLoop
  /\ engine' = (IF engineIsNull THEN engine ELSE engineReset(Stopped))
  /\ outbox' = sendStateUpdate(engineIsNull, engine')
  /\ last' = OpReset(engine)
  /\ watch' = NoWatch
  /\ UNCHANGED <<engineIsNull, msPerTick, accumulator, lastTime, now>>

\* The guard of the handlers that push an event and step once.
CanStepOnce == engineIsNull \/ (CanPush /\ engine.currentTime + 1 <= MaxTime)

OnToggle(gateId) ==
  /\ CanStepOnce
  /\ Handle("toggle", gateId, step(toggleInput(engine, gateId), 1).engine)

OnTriggerPulse(gateId) ==
  /\ CanStepOnce
  /\ Handle("triggerPulse", gateId, step(triggerPulse(engine, gateId), 1).engine)

OnSetInput(gateId, value) ==
  /\ CanStepOnce
  /\ Handle("setInput", gateId, step(setInputValue(engine, gateId, value), 1).engine)

OnSetSpeed(ms) ==
  /\ msPerTick' = Max(1, IF ms <= 1000 THEN ms ELSE 1000)
  /\ outbox' = <<>>
  /\ last' = Op("setSpeed", "", 0, 0)
  /\ watch' = NoWatch
  /\ UNCHANGED <<engine, engineIsNull, animFrameId, accumulator, lastTime, timers, now>>

\* case 'addGate'.  When createGateFromState throws, engine.addGate has
\* changed nothing and the handler ends before sendStateUpdate.
OnAddGate(gateState) ==
  /\ engineIsNull \/ (CanPush /\ CanAllocate)
  /\ IF ~engineIsNull /\ gateState.type \notin KnownTypes
     THEN /\ outbox' = <<>>
          /\ last' = Op("addGate", gateState.id, 0, 0)
          /\ watch' = NoWatch
          /\ UNCHANGED <<engine, engineIsNull, animFrameId, msPerTick, accumulator,
                         lastTime, timers, now>>
     ELSE Handle("addGate", gateState.id, addGate(engine, gateState))

OnRemoveGate(gateId) ==
  /\ engineIsNull \/ CanPush
  /\ Handle("removeGate", gateId, removeGate(engine, gateId))

OnAddWire(wireState) ==
  /\ engineIsNull \/ (CanPush /\ CanConnect)
  /\ Handle("addWire", wireState.id, addWire(engine, wireState))

OnRemoveWire(wireId) ==
  /\ engineIsNull \/ CanPush
  /\ Handle("removeWire", wireId, removeWire(engine, wireId))

OnGetState == Handle("getState", "", engine)

\* A message type without a case (setKeypadValue, setMemoryData): default.
OnUnhandled(type) ==
  /\ outbox' = <<[type |-> "error", message |-> "Unknown message type"]>>
  /\ last' = Op(type, "", 0, 0)
  /\ watch' = NoWatch
  /\ UNCHANGED <<engine, engineIsNull, animFrameId, msPerTick, accumulator, lastTime,
                 timers, now>>

\* The number of steps of one frame and the accumulator left.
FrameSteps(acc) ==
  IF acc \div msPerTick > MAX_STEPS_PER_FRAME THEN MAX_STEPS_PER_FRAME
  ELSE acc \div msPerTick

FrameRest(acc) ==
  LET rest == acc - FrameSteps(acc) * msPerTick
  IN IF rest > msPerTick * MAX_STEPS_PER_FRAME THEN 0 ELSE rest

\* The timer fires and runs simulationLoop; maxTime bounds the kernel time
\* of the exploration.  The count field of the record keeps the number of
\* steps the loop asked the kernel for.
SimulationLoopWithin(maxTime) ==
  \E timer \in timers :
    /\ timer.due <= now
    /\ IF engineIsNull \/ ~isRunning(engine)
       THEN /\ timers' = {other \in timers \ {timer} : other.id # animFrameId}
            /\ animFrameId' = 0
            /\ outbox' = <<>>
            /\ last' = Op("simulationLoop", "", 0, 0)
            /\ UNCHANGED <<engine, accumulator, lastTime>>
       ELSE \E steps \in {FrameSteps(accumulator + (now - lastTime))} :
              /\ CanPush
              /\ lastTime' = now
              /\ accumulator' = FrameRest(accumulator + (now - lastTime))
              /\ engine' = (IF steps > 0 THEN step(engine, steps).engine ELSE engine)
              /\ engine'.currentTime <= maxTime
              /\ outbox' = (IF steps > 0 THEN <<StateUpdate(engine')>> ELSE <<>>)
              /\ animFrameId' = 1
              /\ timers' = (timers \ {timer}) \cup {[id |-> 1, due |-> now + FRAME_INTERVAL]}
              /\ last' = Op("simulationLoop", "", steps, 0)
    /\ watch' = NoWatch
    /\ UNCHANGED <<engineIsNull, msPerTick, now>>

SimulationLoop == SimulationLoopWithin(MaxTime)

\* Wall-clock time passes.
Elapse(dt) ==
  /\ now + dt <= MaxFrames * FRAME_INTERVAL
  /\ now' = now + dt
  /\ UNCHANGED <<engine, engineIsNull, animFrameId, msPerTick, accumulator, lastTime,
                 timers, outbox, last, watch>>

WorkerNetlists == {[gates |-> <<ToggleT, NotN>>, wires |-> <<WireTN>>]}

NextWorker ==
  \/ \E netlist \in WorkerNetlists : OnInit(netlist)
  \/ OnRun
  \/ OnPause
  \/ \E count \in {Undefined, 2} : OnStep(count)
  \/ OnReset
  \/ OnToggle("t")
  \/ OnTriggerPulse("t")
  \/ OnSetInput("t", ONE)
  \/ \E ms \in {8} : OnSetSpeed(ms)
  \/ ~MapHas(engine.gates, NotN.id) /\ OnAddGate(NotN)
  \/ OnRemoveGate(NotN.id)
  \/ ~MapHas(engine.wires, WireTN.id) /\ OnAddWire(WireTN)
  \/ OnRemoveWire(WireTN.id)
  \/ OnGetState
  \/ OnUnhandled("setKeypadValue")
  \/ Elapse(FRAME_INTERVAL)
  \/ SimulationLoop

SpecWorker == InitWorker /\ [][NextWorker]_vars

(***************************************************************************)
(* SpecReset: reset and initialize among the other calls, with ids the     *)
(* netlist does not hold yet, on the netlists of SpecKernel.               *)
(***************************************************************************)
NextReset ==
  \/ \E netlist \in KernelNetlists : Initialize(netlist)
  \/ ~MapHas(engine.gates, PulseP.id) /\ AddGate(PulseP)
  \/ \E gateId \in KernelGateIds : RemoveGate(gateId)
  \/ ~MapHas(engine.wires, WirePF.id) /\ AddWire(WirePF)
  \/ RemoveWire(WirePF.id)
  \/ TriggerPulse("p")
  \/ \E count \in 1..MaxCount : Step(count)
  \/ Reset

SpecReset == Init /\ [][NextReset]_vars

(***************************************************************************)
(* SpecControl: run() and pause() of the engine among initialize, step,    *)
(* stimulus and reset, on the TOGGLE -> NOT netlist.  For run and pause,   *)
(* last.id is the state of the kernel before the call.                     *)
(***************************************************************************)
KernelState(e) ==
  IF isRunning(e) THEN "Running" ELSE IF isPaused(e) THEN "Paused" ELSE "Idle"

Run ==
  /\ engine' = run(engine)
  /\ last' = Op("run", KernelState(engine), 0, 0)
  /\ watch' = NoWatch
  /\ UNCHANGED workerVars

Pause ==
  /\ engine' = pause(engine)
  /\ last' = Op("pause", KernelState(engine), 0, 0)
  /\ watch' = NoWatch
  /\ UNCHANGED workerVars

NextControl ==
  \/ \E netlist \in Netlists : Initialize(netlist)
  \/ Run
  \/ Pause
  \/ ToggleInput("t")
  \/ \E count \in 1..MaxCount : Step(count)
  \/ Reset

SpecControl == Init /\ [][NextControl]_vars


(***************************************************************************)
(* SpecQueue: the event queue on its own, as its tests use it: events are  *)
(* pushed with times in any order and popped, purged by gate, or cleared.  *)
(* For a push, last.time and last.count are the time pushed and the        *)
(* counter before it; for a pop, the time and sequence of the event        *)
(* returned (Undefined when the queue was empty).                          *)
(***************************************************************************)
QueueTimes == {0, 1, 2}
QueueGates == {"gate1", "gate2"}

QueuePush(time, gateId) ==
  /\ engine.eventQueue.creationCounter < MaxQueue
  /\ engine' = [engine EXCEPT !.eventQueue =
                  push(@, [time |-> time, gateId |-> gateId,
                           portIndex |-> 0, newState |-> ONE])]
  /\ last' = [Op("push", gateId, engine.eventQueue.creationCounter, 0)
                EXCEPT !.time = time]
  /\ watch' = NoWatch
  /\ UNCHANGED workerVars

QueuePop ==
  /\ engine' = [engine EXCEPT !.eventQueue = pop(@)]
  /\ last' = IF isEmpty(engine.eventQueue) THEN [Op("pop", "", Undefined, 0)
                                                   EXCEPT !.time = Undefined]
             ELSE [Op("pop", peek(engine.eventQueue).gateId,
                      peek(engine.eventQueue).creationTime, 0)
                     EXCEPT !.time = peek(engine.eventQueue).time]
  /\ watch' = NoWatch
  /\ UNCHANGED workerVars

QueueRemoveEventsForGate(gateId) ==
  /\ engine' = [engine EXCEPT !.eventQueue = removeEventsForGate(@, gateId)]
  /\ last' = Op("removeEventsForGate", gateId, 0, 0)
  /\ watch' = NoWatch
  /\ UNCHANGED workerVars

QueueClear ==
  /\ engine' = [engine EXCEPT !.eventQueue = clear(@)]
  /\ last' = Op("clear", "", 0, 0)
  /\ watch' = NoWatch
  /\ UNCHANGED workerVars

NextQueue ==
  \/ \E time \in QueueTimes, gateId \in QueueGates : QueuePush(time, gateId)
  \/ QueuePop
  \/ \E gateId \in QueueGates : QueueRemoveEventsForGate(gateId)
  \/ QueueClear

SpecQueue == Init /\ [][NextQueue]_vars


(***************************************************************************)
(* SpecCap: engines constructed with a small maxEventsPerStep, initialized *)
(* once with a TOGGLE -> NOT -> LED chain or with an AND / NOT feedback    *)
(* loop that oscillates while the toggle is ONE, then toggled and stepped. *)
(* For a step, last.pending is the number of overdue events before the     *)
(* call.                                                                   *)
(***************************************************************************)
LedL == GateState("l", "LED", 1, 0)
AndA == GateState("a", "AND", 2, 1)
WireNL == WireState("w2", "n", 0, "l", 0)
WireTA == WireState("w3", "t", 0, "a", 0)
WireNA == WireState("w4", "n", 0, "a", 1)
WireAN == WireState("w5", "a", 0, "n", 0)

CapNetlists ==
  {[gates |-> <<ToggleT, NotN, LedL>>, wires |-> <<WireTN, WireNL>>],
   [gates |-> <<ToggleT, AndA, NotN>>, wires |-> <<WireTA, WireNA, WireAN>>]}

CapValues == {1, 2}

\* The events an earlier step left behind when it reached the cap: those
\* whose time is before currentTime.
Overdue(e) ==
  Cardinality({i \in 1..Len(e.eventQueue.heap) : e.eventQueue.heap[i].time < e.currentTime})

InitCap ==
  /\ \E cap \in CapValues : engine = SimulationEngine([maxEventsPerStep |-> cap])
  /\ engineIsNull = FALSE
  /\ animFrameId = 0
  /\ msPerTick = 16
  /\ accumulator = 0
  /\ lastTime = 0
  /\ timers = {}
  /\ now = 0
  /\ outbox = <<>>
  /\ last = Op("new", "", 0, 0)
  /\ watch = NoWatch

CapCanStep ==
  /\ engine.eventQueue.creationCounter < MaxCapSeq
  /\ engine.currentTime < MaxCapTime

CapInitialize(netlist) ==
  /\ last.op = "new"
  /\ Initialize(netlist)

CapToggleInput(gateId) ==
  /\ last.op # "new"
  /\ engine.eventQueue.creationCounter < MaxCapSeq
  /\ engine' = toggleInput(engine, gateId)
  /\ last' = Op("toggleInput", gateId, 0, 0)
  /\ watch' = NoWatch
  /\ UNCHANGED workerVars

CapStep(count) ==
  /\ last.op # "new"
  /\ CapCanStep
  /\ \E r \in {step(engine, count)} :
       /\ engine' = r.engine
       /\ last' = [Op("step", "", count, r.iterations) EXCEPT !.pending = Overdue(engine)]
  /\ watch' = NoWatch
  /\ UNCHANGED workerVars

NextCap ==
  \/ \E netlist \in CapNetlists : CapInitialize(netlist)
  \/ CapToggleInput("t")
  \/ \E count \in 1..MaxCount : CapStep(count)

SpecCap == InitCap /\ [][NextCap]_vars


(***************************************************************************)
(* SpecTime: step calls interleaved with every stimulus and every          *)
(* incremental mutation, on a TOGGLE and a PULSE to which a NOT gate and a *)
(* wire are added and removed, on engines constructed with the default     *)
(* maxEventsPerStep or with 1 (so that steps leave overdue events).        *)
(***************************************************************************)
TimeCaps == {1, maxEventsPerStep}

InitTime ==
  /\ \E cap \in TimeCaps : engine = SimulationEngine([maxEventsPerStep |-> cap])
  /\ engineIsNull = FALSE
  /\ animFrameId = 0
  /\ msPerTick = 16
  /\ accumulator = 0
  /\ lastTime = 0
  /\ timers = {}
  /\ now = 0
  /\ outbox = <<>>
  /\ last = Op("new", "", 0, 0)
  /\ watch = NoWatch

TimeNetlist == [gates |-> <<ToggleT, PulseP>>, wires |-> <<>>]

NextTime ==
  \/ last.op = "new" /\ Initialize(TimeNetlist)
  \/ ~MapHas(engine.gates, NotN.id) /\ AddGate(NotN)
  \/ RemoveGate(NotN.id)
  \/ ~MapHas(engine.wires, WireTN.id) /\ AddWire(WireTN)
  \/ RemoveWire(WireTN.id)
  \/ ToggleInput("t")
  \/ SetInputValue("t", ONE)
  \/ TriggerPulse("p")
  \/ \E count \in 1..MaxCount : Step(count)

SpecTime == InitTime /\ [][NextTime]_vars


(***************************************************************************)
(* SpecClock: clocks made from descriptors that carry a period and, some   *)
(* of them, a dutyCycle, stepped over more than a period and reset.  For a *)
(* step, last.time is the time at which the call started.                  *)
(***************************************************************************)
ClockDescriptor(id, period) ==
  WithInternal(GateState(id, "CLOCK", 0, 1), ("period" :> period))

ClockDescriptorDuty(id, period, dutyCycle) ==
  WithInternal(GateState(id, "CLOCK", 0, 1),
               ("period" :> period @@ "dutyCycle" :> dutyCycle))

ClockPool ==
  {ClockDescriptor("c", 2),
   ClockDescriptor("c3", 3),
   ClockDescriptorDuty("c4", 4, [num |-> 1, den |-> 4]),
   ClockDescriptorDuty("c5", 5, [num |-> 3, den |-> 4]),
   GateState("c10", "CLOCK", 0, 1)}

WireCN(clockId) == WireState("w6", clockId, 0, "n", 0)

ClockNetlists ==
  {[gates |-> <<clock, NotN>>, wires |-> <<WireCN(clock.id)>>] : clock \in ClockPool}

ClockStep(count) ==
  /\ engine.currentTime + count <= MaxClockTime
  /\ \E r \in {step(engine, count)} :
       /\ engine' = r.engine
       /\ last' = [Op("step", "", count, r.iterations) EXCEPT !.time = engine.currentTime]
  /\ watch' = NoWatch
  /\ UNCHANGED workerVars

NextClock ==
  \/ \E netlist \in ClockNetlists : Initialize(netlist)
  \/ \E count \in 1..MaxCount : ClockStep(count)
  \/ Reset

SpecClock == Init /\ [][NextClock]_vars


(***************************************************************************)
(* SpecPulse: a PULSE of duration 1 (the default), 2 or 3 feeding a NOT    *)
(* gate, triggered at any time, any number of times, between steps.        *)
(* watch remembers the last trigger: the gate and the simulated time.      *)
(***************************************************************************)
PulseDurations == {2, 3}

PulseDescriptor(duration) ==
  WithInternal(GateState("p", "PULSE", 0, 1), ("duration" :> duration))

WirePN == WireState("w7", "p", 0, "n", 0)

PulseNetlists ==
  {[gates |-> <<pulse, NotN>>, wires |-> <<WirePN>>] :
     pulse \in {PulseP} \cup {PulseDescriptor(d) : d \in PulseDurations}}

PulseTrigger(gateId) ==
  /\ CanPush
  /\ engine' = triggerPulse(engine, gateId)
  /\ last' = Op("triggerPulse", gateId, 0, 0)
  /\ watch' = [gate |-> gateId, time |-> engine.currentTime]
  /\ UNCHANGED workerVars

PulseStep(count) ==
  /\ CanPush
  /\ engine.currentTime + count <= MaxClockTime
  /\ \E r \in {step(engine, count)} :
       /\ engine' = r.engine
       /\ last' = [Op("step", "", count, r.iterations) EXCEPT !.time = engine.currentTime]
  /\ UNCHANGED <<watch, workerVars>>

NextPulse ==
  \/ \E netlist \in PulseNetlists : Initialize(netlist)
  \/ PulseTrigger("p")
  \/ \E count \in 1..MaxCount : PulseStep(count)

SpecPulse == Init /\ [][NextPulse]_vars


(***************************************************************************)
(* SpecSettle: acyclic combinational netlists fed by TOGGLEs (the chain    *)
(* TOGGLE -> NOT -> LED, two TOGGLEs into an AND, and a TOGGLE reaching an *)
(* AND both directly and through a NOT), toggled at any time between       *)
(* steps.  watch.steps counts the time steps run since the last initialize *)
(* or toggle.                                                              *)
(***************************************************************************)
ToggleT2 == GateState("t2", "TOGGLE", 0, 1)
WireT2A == WireState("w8", "t2", 0, "a", 1)

SettleNetlists ==
  {[gates |-> <<ToggleT, NotN, LedL>>, wires |-> <<WireTN, WireNL>>],
   [gates |-> <<ToggleT, ToggleT2, AndA>>, wires |-> <<WireTA, WireT2A>>],
   [gates |-> <<AndA, NotN, ToggleT>>, wires |-> <<WireNA, WireTA, WireTN>>]}

SettleToggle(gateId) ==
  /\ MapHas(engine.gates, gateId)
  /\ engine.eventQueue.creationCounter < MaxSettleSeq
  /\ engine' = toggleInput(engine, gateId)
  /\ last' = Op("toggleInput", gateId, 0, 0)
  /\ watch' = NoWatch
  /\ UNCHANGED workerVars

SettleStep(count) ==
  /\ engine.eventQueue.creationCounter < MaxSettleSeq
  /\ engine.currentTime + count <= MaxSettleTime
  /\ \E r \in {step(engine, count)} :
       /\ engine' = r.engine
       /\ last' = Op("step", "", count, r.iterations)
       /\ watch' = [watch EXCEPT !.steps = @ + r.iterations]
  /\ UNCHANGED workerVars

NextSettle ==
  \/ \E netlist \in SettleNetlists : Initialize(netlist)
  \/ \E gateId \in {"t", "t2"} : SettleToggle(gateId)
  \/ \E count \in 1..MaxCount : SettleStep(count)

SpecSettle == Init /\ [][NextSettle]_vars


(***************************************************************************)
(* SpecTri: two tri-state buffers, each with a data and an enable TOGGLE,  *)
(* driving the same input port of an LED; the four toggles change at any   *)
(* time between steps.  watch remembers the last change: the toggle and    *)
(* the simulated time.                                                     *)
(***************************************************************************)
TriToggles == {"d1", "e1", "d2", "e2"}

\* A TOGGLE descriptor that carries the switch position.
ToggleWith(id, value) ==
  WithInternal(GateState(id, "TOGGLE", 0, 1), ("value" :> value))

TriNetlist(d1, e1, d2, e2) ==
  [gates |-> <<ToggleWith("d1", d1), ToggleWith("e1", e1),
               ToggleWith("d2", d2), ToggleWith("e2", e2),
               GateState("b1", "TRI_BUFFER", 2, 1), GateState("b2", "TRI_BUFFER", 2, 1),
               LedL>>,
   wires |-> <<WireState("x1", "d1", 0, "b1", 0), WireState("x2", "e1", 0, "b1", 1),
               WireState("x3", "d2", 0, "b2", 0), WireState("x4", "e2", 0, "b2", 1),
               WireState("x5", "b1", 0, "l", 0), WireState("x6", "b2", 0, "l", 0)>>]

TriInitialize ==
  /\ last.op = "new"
  /\ \E d1 \in {ZERO, ONE}, e1 \in {ZERO, ONE} : Initialize(TriNetlist(d1, e1, ZERO, ZERO))

\* A toggle is flipped when no evaluation of it is pending: at most once
\* between two steps.
TriToggle(gateId) ==
  /\ MapHas(engine.gates, gateId)
  /\ \A i \in 1..Len(engine.eventQueue.heap) : engine.eventQueue.heap[i].gateId # gateId
  /\ engine.eventQueue.creationCounter < MaxTriSeq
  /\ engine' = toggleInput(engine, gateId)
  /\ last' = Op("toggleInput", gateId, 0, 0)
  /\ watch' = [gate |-> gateId, time |-> engine.currentTime]
  /\ UNCHANGED workerVars

TriStep(count) ==
  /\ engine.currentTime + count <= MaxTriTime
  /\ \E r \in {step(engine, count)} :
       /\ engine' = r.engine
       /\ last' = Op("step", "", count, r.iterations)
  /\ UNCHANGED <<watch, workerVars>>

NextTri ==
  \/ TriInitialize
  \/ \E gateId \in TriToggles : TriToggle(gateId)
  \/ \E count \in 1..MaxCount : TriStep(count)

SpecTri == Init /\ [][NextTri]_vars


(***************************************************************************)
(* SpecFlipFlop: one D flip-flop driven as the event loop drives a gate:   *)
(* setInput on either port with any of the five states (what               *)
(* propagateWireState does), and evaluate followed by updatePreviousInputs *)
(* (the body of the event loop).  watch remembers the CLK input read by    *)
(* the previous evaluation.                                                *)
(***************************************************************************)
States == {ZERO, ONE, HI_Z, CONFLICT, UNKNOWN}

FlipFlopNetlist == [gates |-> <<GateState("f", "D_FLIPFLOP", 2, 2)>>, wires |-> <<>>]

FlipFlopInitialize ==
  /\ last.op = "new"
  /\ Initialize(FlipFlopNetlist)

FlipFlopSetInput(port, value) ==
  /\ MapHas(engine.gates, "f")
  /\ engine' = WithGate(engine, "f", setInput(GateOf(engine, "f"), port, value))
  /\ last' = Op("setInput", "f", port, 0)
  /\ UNCHANGED <<watch, workerVars>>

FlipFlopEvaluate ==
  /\ MapHas(engine.gates, "f")
  /\ engine' = ProcessEvent(engine, [gateId |-> "f"])
  /\ last' = Op("evaluate", "f", 0, 0)
  /\ watch' = [gate |-> "f", clk |-> GateOf(engine, "f").inputs[2].state]
  /\ UNCHANGED workerVars

NextFlipFlop ==
  \/ FlipFlopInitialize
  \/ \E port \in {0, 1}, value \in States : FlipFlopSetInput(port, value)
  \/ FlipFlopEvaluate

SpecFlipFlop == Init /\ [][NextFlipFlop]_vars


(***************************************************************************)
(* SpecCounter: one COUNTER_4BIT driven as the event loop drives a gate.   *)
(* The initial state is the counter after initialize, with EN = ONE,       *)
(* UP_DOWN = ONE, CLK = CLR = LOAD = ZERO and the word 0101 on D0..D3, and *)
(* after one evaluation; from there CLK, CLR and LOAD change between ZERO  *)
(* and ONE and the counter is evaluated.  watch remembers the CLK read by  *)
(* the previous evaluation, the number of rising edges evaluated, and      *)
(* whether CLR and LOAD were ZERO at every one of them.                    *)
(***************************************************************************)
CounterNetlist == [gates |-> <<GateState("k", "COUNTER_4BIT", 9, 5)>>, wires |-> <<>>]

\* CLK, CLR, EN, LOAD, UP_DOWN, D0..D3
CounterInputs == <<ZERO, ZERO, ONE, ZERO, ONE, ONE, ZERO, ONE, ZERO>>

RECURSIVE SetInputs(_, _, _)
SetInputs(g, states, i) ==
  IF i >= Len(states) THEN g
  ELSE SetInputs(setInput(g, i, states[i + 1]), states, i + 1)

WithInputs(e, gateId, states) ==
  WithGate(e, gateId, SetInputs(GateOf(e, gateId), states, 0))

InitCounter ==
  /\ engine = ProcessEvent(WithInputs(initialize(NewEngine, CounterNetlist.gates,
                                                 CounterNetlist.wires),
                                      "k", CounterInputs),
                           [gateId |-> "k"])
  /\ engineIsNull = FALSE
  /\ animFrameId = 0
  /\ msPerTick = 16
  /\ accumulator = 0
  /\ lastTime = 0
  /\ timers = {}
  /\ now = 0
  /\ outbox = <<>>
  /\ last = Op("evaluate", "k", 0, 0)
  /\ watch = [gate |-> "k", clk |-> ZERO, edges |-> 0, counting |-> TRUE]

CounterSetInput(port, value) ==
  /\ engine' = WithGate(engine, "k", setInput(GateOf(engine, "k"), port, value))
  /\ last' = Op("setInput", "k", port, 0)
  /\ UNCHANGED <<watch, workerVars>>

\* The evaluation sees CLK ZERO at the previous evaluation and ONE now.
CounterEdge == watch.clk = ZERO /\ GateOf(engine, "k").inputs[1].state = ONE

CounterEvaluate ==
  /\ CounterEdge => watch.edges < MaxEdges
  /\ engine' = ProcessEvent(engine, [gateId |-> "k"])
  /\ last' = Op("evaluate", "k", 0, 0)
  /\ watch' = [gate |-> "k",
               clk |-> GateOf(engine, "k").inputs[1].state,
               edges |-> IF CounterEdge THEN watch.edges + 1 ELSE watch.edges,
               counting |-> /\ watch.counting
                            /\ CounterEdge => /\ GateOf(engine, "k").inputs[2].state = ZERO
                                              /\ GateOf(engine, "k").inputs[4].state = ZERO]
  /\ UNCHANGED workerVars

NextCounter ==
  \/ \E port \in {0, 1, 3}, value \in {ZERO, ONE} : CounterSetInput(port, value)
  \/ CounterEvaluate

SpecCounter == InitCounter /\ [][NextCounter]_vars


(***************************************************************************)
(* SpecRam: one RAM_16X4 driven as the event loop drives a gate.  The      *)
(* initial state is the RAM after initialize with address 0000, DIN 1010,  *)
(* WE = ZERO and CLK = ZERO, and after one evaluation; from there A0, D0,  *)
(* WE and CLK change and the RAM is evaluated.  watch remembers the CLK    *)
(* read by the previous evaluation and a reference memory: the word each   *)
(* address was last written with.                                          *)
(***************************************************************************)
RamNetlist == [gates |-> <<GateState("m", "RAM_16X4", 10, 4)>>, wires |-> <<>>]

\* A0..A3, DIN0..DIN3, WE, CLK
RamInputs == <<ZERO, ZERO, ZERO, ZERO, ONE, ZERO, ONE, ZERO, ZERO, ZERO>>

\* The values each driven port takes (port indices are 0-based).
RamPortValues ==
  (0 :> {ZERO, ONE, UNKNOWN}) @@ (4 :> {ZERO, ONE, HI_Z})
  @@ (8 :> {ZERO, ONE, UNKNOWN}) @@ (9 :> {ZERO, ONE})

InitRam ==
  /\ engine = ProcessEvent(WithInputs(initialize(NewEngine, RamNetlist.gates, RamNetlist.wires),
                                      "m", RamInputs),
                           [gateId |-> "m"])
  /\ engineIsNull = FALSE
  /\ animFrameId = 0
  /\ msPerTick = 16
  /\ accumulator = 0
  /\ lastTime = 0
  /\ timers = {}
  /\ now = 0
  /\ outbox = <<>>
  /\ last = Op("evaluate", "m", 0, 0)
  /\ watch = [gate |-> "m", clk |-> ZERO, mem |-> <<>>]

RamSetInput(port, value) ==
  /\ engine' = WithGate(engine, "m", setInput(GateOf(engine, "m"), port, value))
  /\ last' = Op("setInput", "m", port, 0)
  /\ UNCHANGED <<watch, workerVars>>

\* The address on A0..A3, A0 the least significant bit; -1 if a bit is not
\* ZERO or ONE.
RamAddress(e) ==
  IF \E i \in 1..4 : GateOf(e, "m").inputs[i].state \notin {ZERO, ONE} THEN 0 - 1
  ELSE (IF GateOf(e, "m").inputs[1].state = ONE THEN 1 ELSE 0)
     + (IF GateOf(e, "m").inputs[2].state = ONE THEN 2 ELSE 0)
     + (IF GateOf(e, "m").inputs[3].state = ONE THEN 4 ELSE 0)
     + (IF GateOf(e, "m").inputs[4].state = ONE THEN 8 ELSE 0)

RamDataIn(e) == [i \in 1..4 |-> GateOf(e, "m").inputs[4 + i].state]

\* The evaluation sees a rising CLK edge with WE = ONE and a valid address.
RamWrites ==
  /\ watch.clk = ZERO /\ GateOf(engine, "m").inputs[10].state = ONE
  /\ GateOf(engine, "m").inputs[9].state = ONE
  /\ RamAddress(engine) >= 0

RamEvaluate ==
  /\ engine' = ProcessEvent(engine, [gateId |-> "m"])
  /\ last' = Op("evaluate", "m", 0, 0)
  /\ watch' = [gate |-> "m",
               clk |-> GateOf(engine, "m").inputs[10].state,
               mem |-> IF RamWrites
                       THEN (RamAddress(engine) :> RamDataIn(engine)) @@ watch.mem
                       ELSE watch.mem]
  /\ UNCHANGED workerVars

NextRam ==
  \/ \E port \in DOMAIN RamPortValues : \E value \in RamPortValues[port] : RamSetInput(port, value)
  \/ RamEvaluate

SpecRam == InitRam /\ [][NextRam]_vars


(***************************************************************************)
(* SpecReject: the worker receiving init and addGate messages, some of     *)
(* which name a component type the factories do not know, between steps,   *)
(* toggles and removals.                                                   *)
(***************************************************************************)
BogusB == GateState("b", "BOGUS", 1, 1)

RejectNetlists ==
  {[gates |-> <<ToggleT, NotN>>, wires |-> <<WireTN>>],
   [gates |-> <<ToggleT, BogusB, NotN>>, wires |-> <<WireTN>>]}

NextReject ==
  \/ \E netlist \in RejectNetlists : OnInit(netlist)
  \/ ~MapHas(engine.gates, NotN.id) /\ OnAddGate(NotN)
  \/ OnAddGate(BogusB)
  \/ OnRemoveGate(NotN.id)
  \/ OnToggle("t")
  \/ \E count \in {Undefined, 2} : OnStep(count)
  \/ OnGetState

SpecReject == InitWorker /\ [][NextReject]_vars


(***************************************************************************)
(* SpecKeypad: the worker with a netlist of one KEYPAD, receiving          *)
(* setKeypadValue messages between init, step, reset and getState.         *)
(***************************************************************************)
KeypadK == GateState("k", "KEYPAD", 0, 4)

KeypadValues == 0..15

KeypadNetlists ==
  {[gates |-> <<KeypadK>>, wires |-> <<>>],
   [gates |-> <<WithInternal(KeypadK, "value" :> 5)>>, wires |-> <<>>]}

\* A setKeypadValue message: onmessage has no case for it, so the switch
\* takes its default branch.  The count field of the record keeps the value.
OnSetKeypadValue(gateId, value) ==
  /\ outbox' = <<[type |-> "error", message |-> "Unknown message type"]>>
  /\ last' = Op("setKeypadValue", gateId, value, 0)
  /\ watch' = NoWatch
  /\ UNCHANGED <<engine, engineIsNull, animFrameId, msPerTick, accumulator, lastTime,
                 timers, now>>

NextKeypad ==
  \/ \E netlist \in KeypadNetlists : OnInit(netlist)
  \/ \E value \in KeypadValues : OnSetKeypadValue(KeypadK.id, value)
  \/ OnStep(Undefined)
  \/ OnReset
  \/ OnGetState

SpecKeypad == InitWorker /\ [][NextKeypad]_vars


(***************************************************************************)
(* SpecResolve: resolveWireState applied to two lists of driving states of *)
(* at most MaxSources each, to their concatenations, to the list of their  *)
(* two results, to the first list doubled, to the first list behind a      *)
(* floating driver and to every reordering of the first list.  The lists   *)
(* and the results are kept in watch.                                      *)
(***************************************************************************)
SourceLists == UNION {[1..k -> States] : k \in 0..MaxSources}

\* The list sources in the order given by the permutation perm of its indices.
Reordered(sources, perm) == [i \in 1..Len(sources) |-> sources[perm[i]]]

Unresolved(x, y) ==
  [x |-> x, y |-> y, done |-> FALSE, rx |-> Undefined, ry |-> Undefined,
   rxy |-> Undefined, ryx |-> Undefined, rr |-> Undefined, rxx |-> Undefined,
   rzx |-> Undefined, rperm |-> {}]

InitResolve ==
  /\ engine = NewEngine
  /\ engineIsNull = FALSE
  /\ animFrameId = 0
  /\ msPerTick = 16
  /\ accumulator = 0
  /\ lastTime = 0
  /\ timers = {}
  /\ now = 0
  /\ outbox = <<>>
  /\ last = Op("new", "", 0, 0)
  /\ \E x \in SourceLists, y \in SourceLists : watch = Unresolved(x, y)

Resolve ==
  /\ ~watch.done
  /\ watch' = [x |-> watch.x, y |-> watch.y, done |-> TRUE,
               rx |-> resolveWireState(watch.x),
               ry |-> resolveWireState(watch.y),
               rxy |-> resolveWireState(watch.x \o watch.y),
               ryx |-> resolveWireState(watch.y \o watch.x),
               rr |-> resolveWireState(<<resolveWireState(watch.x),
                                         resolveWireState(watch.y)>>),
               rxx |-> resolveWireState(watch.x \o watch.x),
               rzx |-> resolveWireState(<<HI_Z>> \o watch.x),
               rperm |-> {resolveWireState(Reordered(watch.x, perm)) :
                            perm \in Permutations(1..Len(watch.x))}]
  /\ last' = Op("resolveWireState", "", 0, 0)
  /\ UNCHANGED <<engine, workerVars>>

\* The caller drops the results and takes the two lists again.
ResolveAgain ==
  /\ watch.done
  /\ watch' = Unresolved(watch.x, watch.y)
  /\ last' = Op("new", "", 0, 0)
  /\ UNCHANGED <<engine, workerVars>>

NextResolve == Resolve \/ ResolveAgain

SpecResolve == InitResolve /\ [][NextResolve]_vars


(***************************************************************************)
(* SpecLogic: one logic gate "g" (NOT, or AND / OR / XOR with two or three *)
(* inputs, or NAND / NOR / XNOR with two), created by initialize and       *)
(* evaluated once; then its inputs are driven to any of the five states    *)
(* and it is evaluated again, over and over.                               *)
(***************************************************************************)
LogicNetlists ==
  {[gates |-> <<GateState("g", "NOT", 1, 1)>>, wires |-> <<>>]}
  \cup {[gates |-> <<GateState("g", type, nIn, 1)>>, wires |-> <<>>] :
          type \in {"AND", "OR", "XOR"}, nIn \in {2, 3}}
  \cup {[gates |-> <<GateState("g", type, 2, 1)>>, wires |-> <<>>] :
          type \in {"NAND", "NOR", "XNOR"}}

InitLogic ==
  /\ \E netlist \in LogicNetlists :
       engine = ProcessEvent(initialize(NewEngine, netlist.gates, netlist.wires),
                             [gateId |-> "g"])
  /\ engineIsNull = FALSE
  /\ animFrameId = 0
  /\ msPerTick = 16
  /\ accumulator = 0
  /\ lastTime = 0
  /\ timers = {}
  /\ now = 0
  /\ outbox = <<>>
  /\ last = Op("evaluate", "g", 0, 0)
  /\ watch = NoWatch

\* The inputs of the gate are driven to the given states and the gate is
\* evaluated.
LogicDrive(states) ==
  /\ engine' = ProcessEvent(WithInputs(engine, "g", states), [gateId |-> "g"])
  /\ last' = Op("evaluate", "g", 0, 0)
  /\ UNCHANGED <<watch, workerVars>>

NextLogic ==
  \E states \in [1..Len(GateOf(engine, "g").inputs) -> States] : LogicDrive(states)

SpecLogic == InitLogic /\ [][NextLogic]_vars


(***************************************************************************)
(* SpecRefine: an EventQueue and, beside it in watch.ref, a reference      *)
(* queue: the list of the pending events in the order of (time, seq),      *)
(* where seq counts the pushes and is never reset.  Every call is made on  *)
(* both; watch.returned is what the EventQueue returned and watch.expected *)
(* what the reference returned, as a list of one event (<<>>: undefined).  *)
(* Each pushed event carries its own portIndex, so that two events are     *)
(* never alike.                                                            *)
(***************************************************************************)
Payload(event) ==
  [time |-> event.time, gateId |-> event.gateId, portIndex |-> event.portIndex,
   newState |-> event.newState]

\* The reference list with event behind all the events that are not later.
RECURSIVE RefInsert(_, _)
RefInsert(ref, event) ==
  IF ref = <<>> THEN <<event>>
  ELSE IF Head(ref).time <= event.time THEN <<Head(ref)>> \o RefInsert(Tail(ref), event)
  ELSE <<event>> \o ref

RECURSIVE RefRemove(_, _)
RefRemove(ref, gateId) ==
  IF ref = <<>> THEN <<>>
  ELSE IF Head(ref).gateId = gateId THEN RefRemove(Tail(ref), gateId)
  ELSE <<Head(ref)>> \o RefRemove(Tail(ref), gateId)

RefHead(ref) == IF ref = <<>> THEN <<>> ELSE <<Head(ref)>>

\* What pop() and peek() return.
Returned(q) == IF isEmpty(q) THEN <<>> ELSE <<Payload(peek(q))>>

InitRefine ==
  /\ engine = NewEngine
  /\ engineIsNull = FALSE
  /\ animFrameId = 0
  /\ msPerTick = 16
  /\ accumulator = 0
  /\ lastTime = 0
  /\ timers = {}
  /\ now = 0
  /\ outbox = <<>>
  /\ last = Op("new", "", 0, 0)
  /\ watch = [ref |-> <<>>, pushes |-> 0, returned |-> <<>>, expected |-> <<>>]

RefinePush(time, gateId) ==
  /\ watch.pushes < MaxRefPushes
  /\ \E event \in {[time |-> time, gateId |-> gateId, portIndex |-> watch.pushes,
                    newState |-> ONE]} :
       /\ engine' = [engine EXCEPT !.eventQueue = push(@, event)]
       /\ watch' = [ref |-> RefInsert(watch.ref, event), pushes |-> watch.pushes + 1,
                    returned |-> <<>>, expected |-> <<>>]
  /\ last' = Op("push", gateId, 0, 0)
  /\ UNCHANGED workerVars

RefinePop ==
  /\ engine' = [engine EXCEPT !.eventQueue = pop(@)]
  /\ watch' = [watch EXCEPT !.ref = IF @ = <<>> THEN <<>> ELSE Tail(@),
                            !.returned = Returned(engine.eventQueue),
                            !.expected = RefHead(watch.ref)]
  /\ last' = Op("pop", "", 0, 0)
  /\ UNCHANGED workerVars

RefinePeek ==
  /\ watch' = [watch EXCEPT !.returned = Returned(engine.eventQueue),
                            !.expected = RefHead(watch.ref)]
  /\ last' = Op("peek", "", 0, 0)
  /\ UNCHANGED <<engine, workerVars>>

RefineRemoveEventsForGate(gateId) ==
  /\ engine' = [engine EXCEPT !.eventQueue = removeEventsForGate(@, gateId)]
  /\ watch' = [watch EXCEPT !.ref = RefRemove(@, gateId),
                            !.returned = <<>>, !.expected = <<>>]
  /\ last' = Op("removeEventsForGate", gateId, 0, 0)
  /\ UNCHANGED workerVars

RefineClear ==
  /\ engine' = [engine EXCEPT !.eventQueue = clear(@)]
  /\ watch' = [watch EXCEPT !.ref = <<>>, !.returned = <<>>, !.expected = <<>>]
  /\ last' = Op("clear", "", 0, 0)
  /\ UNCHANGED workerVars

NextRefine ==
  \/ \E time \in QueueTimes, gateId \in QueueGates : RefinePush(time, gateId)
  \/ RefinePop
  \/ RefinePeek
  \/ \E gateId \in QueueGates : RefineRemoveEventsForGate(gateId)
  \/ RefineClear

SpecRefine == InitRefine /\ [][NextRefine]_vars


(***************************************************************************)
(* SpecDriver: the driver loop of the worker on an empty netlist, with     *)
(* msPerTick set to 1 or 16 and timer callbacks that come on time or late  *)
(* (the timer of a busy or throttled worker), up to MaxDriverNow           *)
(* milliseconds of wall-clock time.                                        *)
(***************************************************************************)
DriverNetlist == [gates |-> <<>>, wires |-> <<>>]
DriverDelays == {FRAME_INTERVAL, 150, 250}

DriverElapse(dt) ==
  /\ now + dt <= MaxDriverNow
  /\ now' = now + dt
  /\ UNCHANGED <<engine, engineIsNull, animFrameId, msPerTick, accumulator, lastTime,
                 timers, outbox, last, watch>>

DriverTick == SimulationLoopWithin(MaxDriverNow)

NextDriver ==
  \/ OnInit(DriverNetlist)
  \/ OnRun
  \/ OnPause
  \/ \E ms \in {1, 16} : OnSetSpeed(ms)
  \/ \E dt \in DriverDelays : DriverElapse(dt)
  \/ DriverTick

SpecDriver == InitWorker /\ [][NextDriver]_vars


(***************************************************************************)
(* SpecPair: a D_FLIPFLOP "f" and a D_FLIPFLOP_SR "s" side by side, both   *)
(* evaluated once after initialize.  Each step writes the same D and CLK   *)
(* on both, SET and RESET on s, and evaluates both as the event loop does. *)
(* watch.asserted tells whether SET or RESET has been ZERO at an           *)
(* evaluation so far.                                                      *)
(***************************************************************************)
PairNetlist ==
  [gates |-> <<GateState("f", "D_FLIPFLOP", 2, 2), GateState("s", "D_FLIPFLOP_SR", 4, 2)>>,
   wires |-> <<>>]

PairControls == {ZERO, ONE}

InitPair ==
  /\ engine = ProcessEvent(ProcessEvent(initialize(NewEngine, PairNetlist.gates,
                                                    PairNetlist.wires),
                                        [gateId |-> "f"]),
                           [gateId |-> "s"])
  /\ engineIsNull = FALSE
  /\ animFrameId = 0
  /\ msPerTick = 16
  /\ accumulator = 0
  /\ lastTime = 0
  /\ timers = {}
  /\ now = 0
  /\ outbox = <<>>
  /\ last = Op("evaluate", "s", 0, 0)
  /\ watch = [gate |-> "s", asserted |-> FALSE]

PairDrive(d, clk, setN, resetN) ==
  /\ engine' = ProcessEvent(ProcessEvent(WithInputs(WithInputs(engine, "f", <<d, clk>>),
                                                    "s", <<d, clk, setN, resetN>>),
                                         [gateId |-> "f"]),
                            [gateId |-> "s"])
  /\ last' = Op("evaluate", "s", 0, 0)
  /\ watch' = [gate |-> "s", asserted |-> watch.asserted \/ setN = ZERO \/ resetN = ZERO]
  /\ UNCHANGED workerVars

NextPair ==
  \E d \in States, clk \in States, setN \in PairControls, resetN \in PairControls :
    PairDrive(d, clk, setN, resetN)

SpecPair == InitPair /\ [][NextPair]_vars


(***************************************************************************)
(* SpecSeed: a TOGGLE wired to the CLK of a D flip-flop whose descriptor   *)
(* has no internalState, an empty one, or one that names q; the netlist is *)
(* built by initialize or the flip-flop is added by addGate, then toggled, *)
(* stepped and reset.                                                      *)
(***************************************************************************)
SeedF == GateState("f", "D_FLIPFLOP", 2, 2)
SeedDescriptors == {SeedF, WithInternal(SeedF, EmptyRec), WithInternal(SeedF, "q" :> ONE)}
WireTF == WireState("w5", "t", 0, "f", 1)

NextSeed ==
  \/ \E gateState \in SeedDescriptors :
       Initialize([gates |-> <<ToggleT, gateState>>, wires |-> <<WireTF>>])
  \/ \E gateState \in SeedDescriptors :
       ~MapHas(engine.gates, gateState.id) /\ AddGate(gateState)
  \/ RemoveGate(SeedF.id)
  \/ ToggleInput("t")
  \/ Step(1)
  \/ Reset

SpecSeed == Init /\ [][NextSeed]_vars


(***************************************************************************)
(* SpecGlitch: two TOGGLEs t and b, a NOT n behind t, an AND c of n and b, *)
(* and a D flip-flop f clocked by c.  The toggles are flipped between      *)
(* steps of one tick.  watch follows the CLK input of f through the event  *)
(* loop: armed when a propagation has written it from ZERO to ONE and f    *)
(* has not been evaluated since, acted the number of rising edges f has    *)
(* evaluated, lost when the input left ONE, or f was evaluated without a   *)
(* rising edge, while armed.                                               *)
(***************************************************************************)
GlitchNetlist ==
  [gates |-> <<ToggleWith("t", ONE), ToggleWith("b", ZERO), GateState("n", "NOT", 1, 1),
               GateState("c", "AND", 2, 1), GateState("f", "D_FLIPFLOP", 2, 2)>>,
   wires |-> <<WireState("ga", "t", 0, "n", 0), WireState("gb", "n", 0, "c", 0),
               WireState("gc", "b", 0, "c", 1), WireState("gd", "c", 0, "f", 1)>>]

GlitchToggles == {"t", "b"}

ClkOf(e) == GateOf(e, "f").inputs[2].state

\* The watch after the event popped from e0 has been processed into e1.
GlitchAfter(w, event, e0, e1) ==
  IF event.gateId = "f"
  THEN [armed |-> FALSE,
        acted |-> IF isRisingEdge(GateOf(e0, "f"), 1) /\ w.acted < 2 THEN w.acted + 1
                  ELSE w.acted,
        lost |-> w.lost \/ (w.armed /\ ~isRisingEdge(GateOf(e0, "f"), 1))]
  ELSE [armed |-> (w.armed /\ ClkOf(e1) = ONE) \/ (ClkOf(e0) = ZERO /\ ClkOf(e1) = ONE),
        acted |-> w.acted,
        lost |-> w.lost \/ (w.armed /\ ClkOf(e1) # ONE)]

RECURSIVE GlitchWatch(_, _, _)
\* The watch after the event loop of processTimeStep, run from e.
GlitchWatch(e, w, eventsProcessed) ==
  IF ~isEmpty(e.eventQueue) /\ eventsProcessed < e.maxEventsPerStep
       /\ peek(e.eventQueue).time <= e.currentTime
  THEN GlitchWatch(ProcessEvent([e EXCEPT !.eventQueue = pop(@)], peek(e.eventQueue)),
                   GlitchAfter(w, peek(e.eventQueue), [e EXCEPT !.eventQueue = pop(@)],
                               ProcessEvent([e EXCEPT !.eventQueue = pop(@)],
                                            peek(e.eventQueue))),
                   eventsProcessed + 1)
  ELSE w

GlitchInitialize ==
  /\ last.op = "new"
  /\ engine' = initialize(engine, GlitchNetlist.gates, GlitchNetlist.wires)
  /\ last' = Op("initialize", "", 0, 0)
  /\ watch' = [armed |-> FALSE, acted |-> 0, lost |-> FALSE]
  /\ UNCHANGED workerVars

\* A toggle is flipped when no evaluation of it is pending.
GlitchToggle(gateId) ==
  /\ MapHas(engine.gates, gateId)
  /\ \A i \in 1..Len(engine.eventQueue.heap) : engine.eventQueue.heap[i].gateId # gateId
  /\ engine.eventQueue.creationCounter < MaxGlitchSeq
  /\ engine' = toggleInput(engine, gateId)
  /\ last' = Op("toggleInput", gateId, 0, 0)
  /\ UNCHANGED <<watch, workerVars>>

GlitchStep ==
  /\ MapHas(engine.gates, "f")
  /\ engine.currentTime + 1 <= MaxGlitchTime
  /\ \E r \in {step(engine, 1)} :
       /\ engine' = r.engine
       /\ last' = Op("step", "", 1, r.iterations)
  /\ watch' = GlitchWatch(CheckPulses(UpdateClocks(engine, 1), 1), watch, 0)
  /\ UNCHANGED workerVars

NextGlitch ==
  \/ GlitchInitialize
  \/ \E gateId \in GlitchToggles : GlitchToggle(gateId)
  \/ GlitchStep

SpecGlitch == Init /\ [][NextGlitch]_vars


(***************************************************************************)
(* SpecLoop: the worker under init, run, pause, reset and step messages,   *)
(* the passing of time and the timer callback.                             *)
(***************************************************************************)
\* Wall-clock time passes, up to MaxLoopFrames frame intervals.
LoopElapse(dt) ==
  /\ now + dt <= MaxLoopFrames * FRAME_INTERVAL
  /\ now' = now + dt
  /\ UNCHANGED <<engine, engineIsNull, animFrameId, msPerTick, accumulator, lastTime,
                 timers, outbox, last, watch>>

NextLoop ==
  \/ \E netlist \in WorkerNetlists : OnInit(netlist)
  \/ OnRun
  \/ OnPause
  \/ \E count \in {Undefined, 2} : OnStep(count)
  \/ OnReset
  \/ LoopElapse(FRAME_INTERVAL)
  \/ SimulationLoop

SpecLoop == InitWorker /\ [][NextLoop]_vars


(***************************************************************************)
(* Properties.                                                             *)
(***************************************************************************)
\* The resolution of the wires the netlist holds on input port portIndex of
\* gateId: UNKNOWN when no wire is connected.
Resolved(e, gateId, portIndex) ==
  LET sources == TargetStates(e.wires, 1, gateId, portIndex)
  IN IF sources = <<>> THEN UNKNOWN ELSE resolveWireState(sources)

\* An evaluation of gateId is pending at the given time.
Pending(e, gateId, time) ==
  \E i \in 1..Len(e.eventQueue.heap) :
    /\ e.eventQueue.heap[i].gateId = gateId
    /\ e.eventQueue.heap[i].time = time

\* C1: after a step call (one or more processTimeStep iterations) the state
\* of every input port of every component is the resolution of the cached
\* states of the wires connected to it, and UNKNOWN when no wire is.
C1_InputsResolved ==
  last.op = "step" =>
    \A k \in 1..Len(engine.gates) :
      LET g == engine.objs[engine.gates[k].val]
      IN \A i \in 1..Len(g.inputs) :
           g.inputs[i].state = Resolved(engine, engine.gates[k].key, i - 1)

C3_RemoveWire ==
  /\ last.op = "removeWire" =>
       /\ ~MapHas(engine.wires, last.id)
       /\ watch.gate # "" => Pending(engine, watch.gate, engine.currentTime + 1)
  /\ (watch.gate # "" /\ watch.steps >= 2 /\ MapHas(engine.gates, watch.gate)) =>
       GateOf(engine, watch.gate).inputs[watch.port + 1].state
         = Resolved(engine, watch.gate, watch.port)

\* C4: after addWire(w) between two components of the netlist, whatever the
\* source's output is: the cached state of w is the source's output, the
\* target's input is the resolution of all the wires on that port, and an
\* evaluation of the target is pending at currentTime + 1.
C4_AddWire ==
  (/\ last.op = "addWire"
   /\ MapHas(engine.wires, last.id)
   /\ MapHas(engine.gates, MapGet(engine.wires, last.id).sourceGateId)
   /\ MapHas(engine.gates, MapGet(engine.wires, last.id).targetGateId)) =>
    LET wire == MapGet(engine.wires, last.id)
        source == GateOf(engine, wire.sourceGateId)
        target == GateOf(engine, wire.targetGateId)
    IN /\ wire.state = Nullish(At(getOutputStates(source), wire.sourcePortIndex), UNKNOWN)
       /\ target.inputs[wire.targetPortIndex + 1].state
            = Resolved(engine, wire.targetGateId, wire.targetPortIndex)
       /\ Pending(engine, wire.targetGateId, engine.currentTime + 1)

\* C5: immediately after removeGate(id), in any state of the engine: no wire
\* has id as its source or target, no pending event names id, id is absent
\* from the netlist and from the clock and pulse registers, and every other
\* component is still present.
C5_RemoveGate ==
  [][last'.op = "removeGate" =>
       /\ \A i \in 1..Len(engine'.wires) :
            /\ engine'.wires[i].val.sourceGateId # last'.id
            /\ engine'.wires[i].val.targetGateId # last'.id
       /\ \A i \in 1..Len(engine'.eventQueue.heap) :
            engine'.eventQueue.heap[i].gateId # last'.id
       /\ ~MapHas(engine'.gates, last'.id)
       /\ \A i \in 1..Len(engine'.clockGates) :
            engine'.objs[engine'.clockGates[i]].id # last'.id
       /\ \A i \in 1..Len(engine'.pulseGates) :
            engine'.objs[engine'.pulseGates[i]].id # last'.id
       /\ \A i \in 1..Len(engine.gates) :
            engine.gates[i].key # last'.id => MapHas(engine'.gates, engine.gates[i].key)
    ]_vars

\* C6: after reset(), from any reachable state: currentTime is 0, the
\* internal state of every component other than a ROM is its constructor
\* default, and every port state and every wire's cached state is UNKNOWN.
C6_ResetDefaults ==
  last.op = "reset" =>
    /\ engine.currentTime = 0
    /\ \A k \in 1..Len(engine.gates) :
         LET g == engine.objs[engine.gates[k].val]
         IN /\ g.type # "ROM_16X4" => g.internalState = ConstructorDefault(g)
            /\ \A i \in 1..Len(g.inputs) : g.inputs[i].state = UNKNOWN
            /\ \A i \in 1..Len(g.outputs) : g.outputs[i].state = UNKNOWN
    /\ \A i \in 1..Len(engine.wires) : engine.wires[i].val.state = UNKNOWN

\* A reset, at a time after 0, of a netlist with a wire and with components
\* that had left their constructor state.
C6_Witness ==
  /\ last.op = "reset"
  /\ last.changed
  /\ last.time > 0
  /\ Len(engine.gates) >= 2
  /\ Len(engine.wires) >= 1

\* C7: reset() leaves the memory map of every ROM exactly as it was before.
C7_RomKeepsMemory ==
  [][last'.op = "reset" =>
       \A k \in 1..Len(engine.gates) :
         LET ref == engine.gates[k].val
         IN engine.objs[ref].type = "ROM_16X4" =>
              Get(engine'.objs[ref].internalState, "memory")
                = Get(engine.objs[ref].internalState, "memory")
    ]_vars

\* C8 as amended: reset() discards every pending event and leaves only the
\* evaluations it schedules itself, one per component, at time 0, numbered
\* from 0; the queue is empty after reset only for an empty netlist.
C8_ResetQueue ==
  last.op = "reset" =>
    /\ size(engine.eventQueue) = Len(engine.gates)
    /\ engine.eventQueue.creationCounter = Len(engine.gates)
    /\ \A i \in 1..Len(engine.eventQueue.heap) :
         /\ engine.eventQueue.heap[i].time = 0
         /\ engine.eventQueue.heap[i].creationTime < Len(engine.gates)
    /\ isEmpty(engine.eventQueue) <=> Len(engine.gates) = 0

\* A reset of a netlist with components while events were pending.
C8_Witness ==
  /\ last.op = "reset"
  /\ last.pending > 0
  /\ Len(engine.gates) >= 2
  /\ size(engine.eventQueue) = Len(engine.gates)

\* C8 as stated: reset() leaves the event queue empty.
C8_ResetQueueEmpty ==
  last.op = "reset" => isEmpty(engine.eventQueue)

RECURSIVE PopOrder(_)
\* The events of a queue in the order pop() returns them.
PopOrder(q) == IF isEmpty(q) THEN <<>> ELSE <<peek(q)>> \o PopOrder(pop(q))

\* How many times id occurs in a sequence of ids.
Occurrences(ids, id) == Cardinality({i \in 1..Len(ids) : ids[i] = id})

\* The gates the next processTimeStep evaluates.
FirstStep(e) == EvaluatedBy(CheckPulses(UpdateClocks(e, 1), 1), 0)

InitialEvents(e) ==
  [k \in 1..Len(e.gates) |->
     [time |-> 0, creationTime |-> k - 1, gateId |-> e.gates[k].key,
      portIndex |-> 0 - 1, newState |-> UNKNOWN]]

\* C9 as amended: immediately after initialize and immediately after reset
\* the queue holds exactly one full evaluation (portIndex -1) at time 0 per
\* component, in insertion order, and nothing else; the first step evaluates
\* every component at time 0 at least once.
C9_InitialEvents ==
  last.op \in {"initialize", "reset"} =>
    /\ PopOrder(engine.eventQueue) = InitialEvents(engine)
    /\ \A k \in 1..Len(engine.gates) :
         Occurrences(FirstStep(engine), engine.gates[k].key) >= 1

\* A reset, after time 0, of a netlist with a clock and other components:
\* the first step evaluates the clock twice.
C9_Witness ==
  /\ last.op = "reset"
  /\ last.time > 0
  /\ Len(engine.gates) >= 3
  /\ MapHas(engine.gates, "c")
  /\ Occurrences(FirstStep(engine), "c") = 2

\* C9 as stated: the same, with every component evaluated exactly once by
\* the first step.
C9_EvaluatedOnce ==
  last.op \in {"initialize", "reset"} =>
    /\ PopOrder(engine.eventQueue) = InitialEvents(engine)
    /\ \A k \in 1..Len(engine.gates) :
         Occurrences(FirstStep(engine), engine.gates[k].key) = 1

\* C10: once the worker has handled a reset, whether the engine was idle,
\* running or paused, the engine is idle: neither running nor paused.
C10_ResetIdle ==
  (last.op = "reset" /\ ~engineIsNull) => (~isRunning(engine) /\ ~isPaused(engine))

\* C11: a freshly constructed kernel is not running; run() from Idle or
\* Paused makes it Running; pause() from Running makes it Paused (not
\* running, paused); a run() after that makes it Running again.
C11_RunPause ==
  /\ last.op = "new" => ~isRunning(engine)
  /\ (last.op = "run" /\ last.id \in {"Idle", "Paused"}) => isRunning(engine)
  /\ (last.op = "pause" /\ last.id = "Running") =>
       (~isRunning(engine) /\ isPaused(engine) /\ KernelState(engine) = "Paused")

\* A run() issued while the kernel was Paused, at a time after 0.
C11_Witness ==
  /\ last.op = "run"
  /\ last.id = "Paused"
  /\ isRunning(engine)
  /\ engine.currentTime > 0

\* (time, sequence) of a comes strictly before that of b.
Before(a, b) ==
  \/ a.time < b.time
  \/ a.time = b.time /\ a.creationTime < b.creationTime

\* C12: the queue pops its events in ascending (time, sequence) order, the
\* sequence being assigned increasingly at push: the events still queued pop
\* in strictly ascending order, a push gives its event the next sequence
\* number, a pop returns an event that comes before every event left, and so
\* events of equal time pop in the order they were pushed.
C12_PopOrder ==
  LET order == PopOrder(engine.eventQueue)
  IN /\ \A i \in 1..(Len(order) - 1) : Before(order[i], order[i + 1])
     /\ \A i \in 1..Len(order) : order[i].creationTime < engine.eventQueue.creationCounter
     /\ last.op = "push" =>
          /\ engine.eventQueue.creationCounter = last.count + 1
          /\ \E i \in 1..Len(order) :
               /\ order[i].creationTime = last.count
               /\ order[i].time = last.time
               /\ order[i].gateId = last.id
     /\ (last.op = "pop" /\ last.time # Undefined) =>
          \A i \in 1..Len(order) :
            Before([time |-> last.time, creationTime |-> last.count], order[i])

\* A pop that returned the older of two events of equal time, pushed after
\* an event of a later time, which is still queued with others.
C12_Witness ==
  /\ last.op = "pop"
  /\ last.time # Undefined
  /\ last.count > 0
  /\ size(engine.eventQueue) >= 3
  /\ \E i, j \in 1..size(engine.eventQueue) :
       /\ engine.eventQueue.heap[i].time = last.time
       /\ engine.eventQueue.heap[j].time > last.time
       /\ engine.eventQueue.heap[j].creationTime < last.count

\* The engine as the event loop of the next processTimeStep finds it.
BeforeEvents(e) == CheckPulses(UpdateClocks(e, 1), 1)

\* How many events the event loop pops in taking pre to post: those queued
\* before, plus those pushed meanwhile, minus those queued after.
Popped(pre, post) ==
  size(pre.eventQueue)
    + (post.eventQueue.creationCounter - pre.eventQueue.creationCounter)
    - size(post.eventQueue)

\* The events of post, in pop order, that were already queued in pre.
KeptFrom(pre, post) ==
  LET Old(ev) == ev.creationTime < pre.eventQueue.creationCounter
  IN SelectSeq(PopOrder(post.eventQueue), Old)

CapHolds(pre, post) ==
  /\ Popped(pre, post) <= pre.maxEventsPerStep
  /\ KeptFrom(pre, post)
       = SubSeq(PopOrder(pre.eventQueue), Popped(pre, post) + 1, size(pre.eventQueue))

\* The event of sequence number n is queued in e.
QueuedIn(e, n) ==
  \E i \in 1..Len(e.eventQueue.heap) : e.eventQueue.heap[i].creationTime = n

\* How many events of e pop before ev.
Rank(e, ev) ==
  Cardinality({i \in 1..Len(e.eventQueue.heap) : Before(e.eventQueue.heap[i], ev)})

\* C13: from every reachable state, feedback loop or not, one processTimeStep
\* pops at most maxEventsPerStep events, and the events it does not pop stay
\* queued in their order; and every step call brings every event that is due
\* (left behind by an earlier step or not) nearer to the head of the queue
\* or pops it, so that an event with r events before it is popped within
\* r + 1 later steps.
C13_EventCap ==
  /\ [](CapHolds(BeforeEvents(engine), ProcessEvents(BeforeEvents(engine), 0)))
  /\ [][last'.op = "step" =>
          \A i \in 1..Len(engine.eventQueue.heap) :
            engine.eventQueue.heap[i].time <= engine.currentTime =>
              \/ ~QueuedIn(engine', engine.eventQueue.heap[i].creationTime)
              \/ Rank(engine', engine.eventQueue.heap[i])
                    < Rank(engine, engine.eventQueue.heap[i])
      ]_vars

\* A step of the feedback-loop netlist, under a cap of 1, that popped the
\* last of the events earlier steps had left behind, with steps still allowed.
C13_Witness ==
  /\ last.op = "step"
  /\ last.pending > 0
  /\ Overdue(engine) = 0
  /\ engine.maxEventsPerStep = 1
  /\ MapHas(engine.gates, "a")
  /\ CapCanStep

\* C14: currentTime never decreases: no step call, stimulus (toggle,
\* setInput, triggerPulse) or incremental mutation (addGate, removeGate,
\* addWire, removeWire) lowers it, in whatever order they come; only a step
\* changes it, and a step advances it by at least 1 per iteration.
C14_TimeMonotonic ==
  [][/\ engine'.currentTime >= engine.currentTime
     /\ last'.op \notin {"step", "initialize"} => engine'.currentTime = engine.currentTime
     /\ last'.op = "step" => engine'.currentTime >= engine.currentTime + last'.iterations
    ]_vars

\* A step taken after time 0 with overdue events queued and a pulse in the
\* netlist, following stimulus and mutation calls.
C14_Witness ==
  /\ last.op = "step"
  /\ engine.currentTime >= 2
  /\ Overdue(engine) > 0
  /\ MapHas(engine.gates, "p")
  /\ MapHas(engine.wires, "w1")

\* The period and duty cycle a clock descriptor carries (defaults 10, 0.5).
PeriodOf(gateState) ==
  Nullish(Get(gateState.internalState, "period"), ClockDefaultPeriod)

DutyCycleOf(gateState) ==
  IF "dutyCycle" \in DOMAIN gateState.internalState
  THEN gateState.internalState["dutyCycle"] ELSE ClockDefaultDutyCycle

\* ONE iff t mod p < floor(p * d)
ClockShould(gateState, t) ==
  IF (t % PeriodOf(gateState)) < FloorTimes(PeriodOf(gateState), DutyCycleOf(gateState))
  THEN ONE ELSE ZERO

\* C15: a CLOCK built from a descriptor carrying period p and dutyCycle d
\* (0.5 when absent) has, after the time step executed at time t, output ONE
\* iff t mod p < floor(p * d) and ZERO otherwise; and the next step evaluates
\* the clock only if that value, at the step's time, differs from the output.
C15_ClockOutput ==
  \A clock \in ClockPool :
    MapHas(engine.gates, clock.id) =>
      /\ (last.op = "step" /\ last.iterations = 1) =>
           GateOf(engine, clock.id).outputs[1].state = ClockShould(clock, last.time)
      /\ Occurrences(FirstStep(engine), clock.id) > 0 =>
           GateOf(engine, clock.id).outputs[1].state # ClockShould(clock, engine.currentTime)


\* The duration a pulse was built with.
DurationOf(e, gateId) == GateOf(e, gateId).priv["pulseDuration"]

\* The pulse of the last trigger covers the step executed at time t.
PulseCovers(t) ==
  /\ watch.gate = "p"
  /\ watch.time <= t
  /\ t < watch.time + DurationOf(engine, "p")

\* C16: after a time step executed at time T the output of a PULSE is ONE if
\* the pulse was last triggered at a time t with t <= T <= t + d - 1, d its
\* duration, and ZERO otherwise: ZERO in every step before the first
\* trigger, ONE in the steps at t .. t + d - 1, ZERO from the first step at
\* a time >= t + d until the next trigger.
C16_PulseOutput ==
  (MapHas(engine.gates, "p") /\ last.op = "step" /\ last.iterations = 1) =>
     GateOf(engine, "p").outputs[1].state = (IF PulseCovers(last.time) THEN ONE ELSE ZERO)

\* A pulse of duration 3 triggered at time 1 is ZERO again after the step at 4.
C16_Witness ==
  /\ MapHas(engine.gates, "p")
  /\ last.op = "step" /\ last.iterations = 1 /\ last.time = 4
  /\ watch.gate = "p" /\ watch.time = 1
  /\ DurationOf(engine, "p") = 3
  /\ GateOf(engine, "p").outputs[1].state = ZERO


\* The gates that drive input port (0-based) of gateId.
DriversOf(e, gateId, port) ==
  {e.wires[i].val.sourceGateId :
     i \in {j \in 1..Len(e.wires) : /\ e.wires[j].val.targetGateId = gateId
                                    /\ e.wires[j].val.targetPortIndex = port}}

DriverOf(e, gateId, port) == CHOOSE s \in DriversOf(e, gateId, port) : TRUE

SetMax(S) == CHOOSE x \in S : \A y \in S : y <= x

\* The number of wires on the longest path from a source to gateId.
RECURSIVE Depth(_, _)
Depth(e, gateId) ==
  IF Len(GateOf(e, gateId).inputs) = 0 THEN 0
  ELSE 1 + SetMax({Depth(e, DriverOf(e, gateId, port - 1)) :
                     port \in 1..Len(GateOf(e, gateId).inputs)})

LongestPath(e) == SetMax({0} \cup {Depth(e, id) : id \in MapKeys(e.gates)})

\* What a gate's output is by its logic function of the toggle values.
RECURSIVE Ideal(_, _)
Ideal(e, gateId) ==
  CASE GateOf(e, gateId).type = "TOGGLE" -> GateOf(e, gateId).internalState["value"]
    [] GateOf(e, gateId).type = "NOT" ->
         IF Ideal(e, DriverOf(e, gateId, 0)) = ONE THEN ZERO ELSE ONE
    [] GateOf(e, gateId).type = "AND" ->
         IF \A port \in 1..Len(GateOf(e, gateId).inputs) :
              Ideal(e, DriverOf(e, gateId, port - 1)) = ONE
         THEN ONE ELSE ZERO

Settled(e) ==
  \A id \in MapKeys(e.gates) :
    /\ \A port \in 1..Len(GateOf(e, id).inputs) :
         GateOf(e, id).inputs[port].state = Ideal(e, DriverOf(e, id, port - 1))
    /\ \A port \in 1..Len(GateOf(e, id).outputs) :
         GateOf(e, id).outputs[port].state = Ideal(e, id)

\* C17: in an acyclic combinational netlist fed by TOGGLEs, once (longest
\* source-to-sink path + 1) time steps have run since initialize or since
\* the last toggle, the event queue is empty; and whenever the queue is
\* empty every gate input and output has the value its logic function gives
\* for the toggle values (NOT = inverse of the toggle = LED input; AND is ONE
\* only when both toggles are ONE).
C17_Settles ==
  Len(engine.gates) > 0 =>
    /\ watch.steps >= LongestPath(engine) + 1 => isEmpty(engine.eventQueue)
    /\ isEmpty(engine.eventQueue) => Settled(engine)

\* The chain has settled three steps after a toggle to ONE.
C17_Witness ==
  /\ MapHas(engine.gates, "l")
  /\ watch.steps = 3
  /\ engine.currentTime > 3
  /\ GateOf(engine, "t").internalState["value"] = ONE
  /\ GateOf(engine, "n").outputs[1].state = ZERO
  /\ GateOf(engine, "l").inputs[1].state = ZERO
  /\ isEmpty(engine.eventQueue)


ToggleValue(e, gateId) == GateOf(e, gateId).internalState["value"]

\* C18: with two TRI_BUFFER outputs wired to input 0 of one target, whenever
\* the netlist is quiescent (no event pending) the target input is CONFLICT
\* if both enables are ONE and the two data values are ZERO and ONE, and is
\* the enabled buffer's data value if one enable is ONE and the other ZERO;
\* after every later change of the enables or the data as well.
C18_SharedBus ==
  (MapHas(engine.gates, "b1") /\ isEmpty(engine.eventQueue)) =>
    /\ (/\ ToggleValue(engine, "e1") = ONE /\ ToggleValue(engine, "e2") = ONE
        /\ ToggleValue(engine, "d1") # ToggleValue(engine, "d2"))
         => GateOf(engine, "l").inputs[1].state = CONFLICT
    /\ (ToggleValue(engine, "e1") = ONE /\ ToggleValue(engine, "e2") = ZERO)
         => GateOf(engine, "l").inputs[1].state = ToggleValue(engine, "d1")
    /\ (ToggleValue(engine, "e1") = ZERO /\ ToggleValue(engine, "e2") = ONE)
         => GateOf(engine, "l").inputs[1].state = ToggleValue(engine, "d2")

\* Quiescent with the bus in conflict after the second buffer was enabled
\* at time 2 or later.
C18_Witness ==
  /\ MapHas(engine.gates, "b1") /\ isEmpty(engine.eventQueue)
  /\ ToggleValue(engine, "e1") = ONE /\ ToggleValue(engine, "e2") = ONE
  /\ ToggleValue(engine, "d1") = ONE /\ ToggleValue(engine, "d2") = ZERO
  /\ GateOf(engine, "l").inputs[1].state = CONFLICT
  /\ watch.gate = "e2" /\ watch.time >= 2

\* Quiescent with exactly the first buffer enabled and driving ONE.
C18_WitnessOne ==
  /\ MapHas(engine.gates, "b1") /\ isEmpty(engine.eventQueue)
  /\ ToggleValue(engine, "e1") = ONE /\ ToggleValue(engine, "e2") = ZERO
  /\ ToggleValue(engine, "d1") = ONE
  /\ GateOf(engine, "l").inputs[1].state = ONE


\* What a rising edge stores for a value of D.
Captured(d) ==
  IF d \in {ZERO, ONE} THEN d
  ELSE IF d \in {UNKNOWN, HI_Z} THEN UNKNOWN
  ELSE CONFLICT

StoredQ(e) == GateOf(e, "f").internalState["q"]

\* The clock input was ZERO at the previous evaluation and is ONE now.
CleanRisingEdge == watch.gate = "f" /\ watch.clk = ZERO /\ GateOf(engine, "f").inputs[2].state = ONE

\* C19: a D flip-flop starts with Q = ZERO; a change of an input leaves Q
\* alone; an evaluation in which CLK was ZERO at the previous evaluation and
\* is ONE now makes Q the value of D (D if ZERO or ONE, UNKNOWN for UNKNOWN
\* and HI_Z, CONFLICT for CONFLICT) and every other evaluation (falling
\* edge, steady clock, a transition through HI_Z, UNKNOWN or CONFLICT, no
\* previous evaluation) holds Q; after an evaluation the outputs are Q and
\* not(Q), and output 1 is not(output 0) at all times.
C19_DFlipFlop ==
  /\ [](MapHas(engine.gates, "f") =>
          /\ last.op = "initialize" => StoredQ(engine) = ZERO
          /\ GateOf(engine, "f").outputs[2].state = logicalNot(GateOf(engine, "f").outputs[1].state))
  /\ [][(MapHas(engine.gates, "f") /\ MapHas(engine'.gates, "f")) =>
          IF last'.op = "evaluate"
          THEN /\ StoredQ(engine') =
                    (IF CleanRisingEdge THEN Captured(GateOf(engine, "f").inputs[1].state)
                     ELSE StoredQ(engine))
               /\ GateOf(engine', "f").outputs[1].state = StoredQ(engine')
          ELSE StoredQ(engine') = StoredQ(engine)
       ]_vars

\* Q is CONFLICT after a rising edge with D = CONFLICT, and the clock is
\* still high with another value on D.
C19_Witness ==
  /\ MapHas(engine.gates, "f")
  /\ last.op = "setInput"
  /\ watch.gate = "f" /\ watch.clk = ONE
  /\ StoredQ(engine) = CONFLICT
  /\ GateOf(engine, "f").outputs[2].state = CONFLICT
  /\ GateOf(engine, "f").inputs[1].state = ONE


\* The number on Q0..Q3, Q0 the least significant bit; -1 if a bit is not
\* ZERO or ONE.
ShownValue(e) ==
  IF \E i \in 1..4 : GateOf(e, "k").outputs[i].state \notin {ZERO, ONE} THEN 0 - 1
  ELSE (IF GateOf(e, "k").outputs[1].state = ONE THEN 1 ELSE 0)
     + (IF GateOf(e, "k").outputs[2].state = ONE THEN 2 ELSE 0)
     + (IF GateOf(e, "k").outputs[3].state = ONE THEN 4 ELSE 0)
     + (IF GateOf(e, "k").outputs[4].state = ONE THEN 8 ELSE 0)

ShownCarry(e) == GateOf(e, "k").outputs[5].state

\* The number on D0..D3.
DataValue(e) ==
  (IF GateOf(e, "k").inputs[6].state = ONE THEN 1 ELSE 0)
  + (IF GateOf(e, "k").inputs[7].state = ONE THEN 2 ELSE 0)
  + (IF GateOf(e, "k").inputs[8].state = ONE THEN 4 ELSE 0)
  + (IF GateOf(e, "k").inputs[9].state = ONE THEN 8 ELSE 0)

\* C20: a COUNTER_4BIT that starts at 0 with EN = ONE and UP_DOWN = ONE
\* shows, after k rising CLK edges at each of which CLR and LOAD were ZERO,
\* the value k mod 16, and CARRY is ONE exactly when the last edge wrapped 15
\* to 0 (k a positive multiple of 16), so once in the first 16 edges.  On any
\* rising edge CLR = ONE clears the value whatever LOAD is, otherwise
\* LOAD = ONE loads D0..D3 although EN is ONE, otherwise the counter counts
\* up modulo 16; an evaluation without a rising edge and a change of an
\* input leave the outputs alone.
C20_Counter ==
  /\ [](watch.counting =>
          /\ ShownValue(engine) = watch.edges % 16
          /\ ShownCarry(engine) = (IF watch.edges > 0 /\ watch.edges % 16 = 0 THEN ONE ELSE ZERO))
  /\ [][IF last'.op = "evaluate" /\ CounterEdge
        THEN /\ ShownValue(engine') =
                  (IF GateOf(engine, "k").inputs[2].state = ONE THEN 0
                   ELSE IF GateOf(engine, "k").inputs[4].state = ONE THEN DataValue(engine)
                   ELSE (ShownValue(engine) + 1) % 16)
             /\ ShownCarry(engine') =
                  (IF /\ GateOf(engine, "k").inputs[2].state = ZERO
                      /\ GateOf(engine, "k").inputs[4].state = ZERO
                      /\ ShownValue(engine) = 15
                   THEN ONE ELSE ZERO)
        ELSE /\ ShownValue(engine') = ShownValue(engine)
             /\ ShownCarry(engine') = ShownCarry(engine)
       ]_vars

\* Sixteen counted edges: the value is back at 0 and CARRY is ONE.
C20_Witness ==
  /\ watch.counting /\ watch.edges = 16
  /\ ShownValue(engine) = 0
  /\ ShownCarry(engine) = ONE

\* An edge with CLR = ONE and LOAD = ONE has cleared a value that was not 0.
C20_WitnessClear ==
  /\ last.op = "evaluate"
  /\ ~watch.counting
  /\ watch.clk = ONE
  /\ GateOf(engine, "k").previousInputs[2] = ONE
  /\ GateOf(engine, "k").previousInputs[4] = ONE
  /\ ShownValue(engine) = 0
  /\ watch.edges = 7


\* What a read of the reference memory gives at the address on A0..A3.
RamShould(e) ==
  IF RamAddress(e) < 0 THEN <<UNKNOWN, UNKNOWN, UNKNOWN, UNKNOWN>>
  ELSE IF RamAddress(e) \in DOMAIN watch.mem THEN watch.mem[RamAddress(e)]
  ELSE <<ZERO, ZERO, ZERO, ZERO>>

\* C21: a RAM_16X4 reads, in every evaluation, the word last stored at the
\* address on its inputs by a rising CLK edge with WE = ONE and a valid
\* address (in the evaluation of the write itself and in every later one:
\* rising edges with WE not ONE, writes to other addresses and evaluations
\* without a rising edge leave the word alone), all ZERO at a valid address
\* never written, and all UNKNOWN at an invalid address.
C21_RamReads ==
  last.op = "evaluate" => getOutputStates(GateOf(engine, "m")) = RamShould(engine)

\* Address 0 still reads the word written to it, after a write of another
\* word to address 1.
C21_Witness ==
  /\ last.op = "evaluate"
  /\ RamAddress(engine) = 0
  /\ DOMAIN watch.mem = {0, 1}
  /\ watch.mem[0] # watch.mem[1]
  /\ watch.mem[0][1] = HI_Z
  /\ getOutputStates(GateOf(engine, "m")) = watch.mem[0]


\* A wire record that was created while its source or its target was absent:
\* the gate object now at that end, if any, does not list the wire on its
\* port.
Dangling(e, wireId) ==
  /\ MapHas(e.wires, wireId)
  /\ \/ ~MapHas(e.gates, MapGet(e.wires, wireId).sourceGateId)
     \/ ~MapHas(e.gates, MapGet(e.wires, wireId).targetGateId)
     \/ ~SeqHas(GateOf(e, MapGet(e.wires, wireId).sourceGateId)
                  .outputs[MapGet(e.wires, wireId).sourcePortIndex + 1].connectedWires,
                wireId)
     \/ ~SeqHas(GateOf(e, MapGet(e.wires, wireId).targetGateId)
                  .inputs[MapGet(e.wires, wireId).targetPortIndex + 1].connectedWires,
                wireId)

\* C22: a wire that was added while one of its endpoints was absent stays
\* inert: no step changes its cached state, also after the missing
\* component has been added.
C22_DanglingInert ==
  [][\A wireId \in WireIds :
       (last'.op = "step" /\ Dangling(engine, wireId) /\ MapHas(engine'.wires, wireId)) =>
          MapGet(engine'.wires, wireId).state = MapGet(engine.wires, wireId).state
    ]_vars


\* The last message was an init or an addGate that named an unknown type
\* while there was a kernel to reject it.
RejectedMessage(op) == op.op \in {"init", "addGate"} /\ op.id = BogusB.id

\* C23: an addGate or init message that names a component type outside the
\* catalogue is answered with an error response.
C23_ErrorResponse ==
  (RejectedMessage(last) /\ ~engineIsNull) =>
     \E i \in 1..Len(outbox) : outbox[i].type = "error"

\* C30: a rejected addGate or init leaves the kernel as it was: components,
\* wires, clock and pulse registers, pending events and current time.
C30_RejectUnchanged ==
  [][(RejectedMessage(last') /\ ~engineIsNull) =>
        /\ engine'.gates = engine.gates
        /\ engine'.objs = engine.objs
        /\ engine'.wires = engine.wires
        /\ engine'.clockGates = engine.clockGates
        /\ engine'.pulseGates = engine.pulseGates
        /\ engine'.eventQueue = engine.eventQueue
        /\ engine'.currentTime = engine.currentTime
    ]_vars


\* The four output states that encode value, least significant bit first.
KeypadEncoding(value) ==
  [i \in 1..4 |-> IF (value \div (2 ^ (i - 1))) % 2 = 1 THEN ONE ELSE ZERO]

\* C24: after a setKeypadValue(gateId, v) message with v in 0..15 for an
\* existing KEYPAD, the four outputs of the keypad encode v and the message
\* was not answered with an error response.
C24_KeypadValue ==
  (/\ last.op = "setKeypadValue"
   /\ last.count \in 0..15
   /\ ~engineIsNull
   /\ MapHas(engine.gates, last.id)) =>
     /\ GateOf(engine, last.id).type = "KEYPAD" =>
          getOutputStates(GateOf(engine, last.id)) = KeypadEncoding(last.count)
     /\ \A i \in 1..Len(outbox) : outbox[i].type # "error"


\* C25: handling a mutation message (addGate, removeGate, addWire,
\* removeWire) posts no stateUpdate snapshot of its own.
C25_MutationsSilent ==
  last.op \in {"addGate", "removeGate", "addWire", "removeWire"} =>
     \A i \in 1..Len(outbox) : outbox[i].type # "stateUpdate"


\* The states that occur in a list of sources.
Present(sources) == {sources[i] : i \in 1..Len(sources)}

\* C26: resolveWireState returns CONFLICT if a source is CONFLICT or both
\* ZERO and ONE occur; otherwise ONE if a source is ONE; otherwise ZERO if a
\* source is ZERO; otherwise UNKNOWN if a source is UNKNOWN; otherwise HI_Z
\* (all sources HI_Z, or no source).
C26_Resolution ==
  watch.done =>
    watch.rx = (IF CONFLICT \in Present(watch.x) \/ {ZERO, ONE} \subseteq Present(watch.x)
                  THEN CONFLICT
                ELSE IF ONE \in Present(watch.x) THEN ONE
                ELSE IF ZERO \in Present(watch.x) THEN ZERO
                ELSE IF UNKNOWN \in Present(watch.x) THEN UNKNOWN
                ELSE HI_Z)

\* ZERO and ONE drive the same wire and the result has been computed.
C26_Witness == watch.done /\ watch.x = <<ZERO, ONE>> /\ watch.rx = CONFLICT

\* The resolution of no source at all has been computed.
C26_WitnessEmpty == watch.done /\ watch.x = <<>> /\ watch.rx = HI_Z

\* C29: resolveWireState is total, independent of the order of the sources,
\* associative (resolving the results of two lists equals resolving their
\* concatenation), idempotent and absorbs HI_Z.
C29_ResolveAlgebra ==
  watch.done =>
    /\ {watch.rx, watch.ry, watch.rxy, watch.rr} \subseteq States
    /\ watch.rperm = {watch.rx}
    /\ watch.ryx = watch.rxy
    /\ watch.rr = watch.rxy
    /\ watch.rxx = watch.rx
    /\ watch.rzx = watch.rx

\* Two lists of two different sources each have been resolved, one of them
\* with an undetermined source only behind a floating one.
C29_Witness ==
  /\ watch.done
  /\ watch.x = <<HI_Z, UNKNOWN>>
  /\ watch.y = <<ZERO, HI_Z>>
  /\ watch.rxy = ZERO


\* The five-state tables of the gates, by the states that occur among the
\* two operands.
NotTable(a) ==
  CASE a = ZERO -> ONE
    [] a = ONE -> ZERO
    [] a = HI_Z -> UNKNOWN
    [] a = CONFLICT -> CONFLICT
    [] a = UNKNOWN -> UNKNOWN

AndTable(a, b) ==
  IF ZERO \in {a, b} THEN ZERO
  ELSE IF CONFLICT \in {a, b} THEN CONFLICT
  ELSE IF {a, b} \cap {UNKNOWN, HI_Z} # {} THEN UNKNOWN
  ELSE ONE

OrTable(a, b) ==
  IF ONE \in {a, b} THEN ONE
  ELSE IF CONFLICT \in {a, b} THEN CONFLICT
  ELSE IF {a, b} \cap {UNKNOWN, HI_Z} # {} THEN UNKNOWN
  ELSE ZERO

XorTable(a, b) ==
  IF CONFLICT \in {a, b} THEN CONFLICT
  ELSE IF {a, b} \cap {UNKNOWN, HI_Z} # {} THEN UNKNOWN
  ELSE IF a # b THEN ONE ELSE ZERO

TableOf(type, a, b) ==
  CASE type \in {"AND", "NAND"} -> AndTable(a, b)
    [] type \in {"OR", "NOR"} -> OrTable(a, b)
    [] type \in {"XOR", "XNOR"} -> XorTable(a, b)

\* The left fold of the table of the type over the first n inputs.
RECURSIVE LeftFold(_, _, _)
LeftFold(type, inputs, n) ==
  IF n = 1 THEN inputs[1]
  ELSE TableOf(type, LeftFold(type, inputs, n - 1), inputs[n])

LogicShould(g) ==
  CASE g.type = "NOT" -> NotTable(g.inputs[1].state)
    [] g.type \in {"AND", "OR", "XOR"} ->
         LeftFold(g.type, getInputStates(g), Len(g.inputs))
    [] g.type \in {"NAND", "NOR", "XNOR"} ->
         NotTable(LeftFold(g.type, getInputStates(g), Len(g.inputs)))

\* C27: an evaluated NOT gate shows the five-state not of its input; an
\* AND, OR or XOR gate the left fold of the five-state and, or, xor over its
\* inputs; a NAND, NOR or XNOR gate the not of that fold.
C27_LogicAlgebra ==
  last.op = "evaluate" =>
     getOutputStates(GateOf(engine, "g")) = <<LogicShould(GateOf(engine, "g"))>>

\* A three-input XOR with all inputs ONE has been evaluated to ONE.
C27_Witness ==
  /\ last.op = "evaluate"
  /\ GateOf(engine, "g").type = "XOR"
  /\ getInputStates(GateOf(engine, "g")) = <<ONE, ONE, ONE>>
  /\ getOutputStates(GateOf(engine, "g")) = <<ONE>>

\* A NOR with a floating and a ZERO input has been evaluated to UNKNOWN.
C27_WitnessFloating ==
  /\ last.op = "evaluate"
  /\ GateOf(engine, "g").type = "NOR"
  /\ getInputStates(GateOf(engine, "g")) = <<HI_Z, ZERO>>
  /\ getOutputStates(GateOf(engine, "g")) = <<UNKNOWN>>


\* The events of a queue in the order in which pop() returns them.
RECURSIVE Drain(_)
Drain(q) == IF isEmpty(q) THEN <<>> ELSE <<Payload(peek(q))>> \o Drain(pop(q))

\* C28: under any interleaving of push, pop, peek, removeEventsForGate and
\* clear the EventQueue behaves like the reference list sorted by (time,
\* sequence): pop and peek return the event the reference returns, size()
\* is the number of pending events, the events still pending pop in the
\* order of the reference (so removeEventsForGate removes the events of the
\* gate and no other, and keeps the order of the rest), and peek changes
\* nothing.
C28_QueueRefines ==
  /\ [](/\ size(engine.eventQueue) = Len(watch.ref)
        /\ watch.returned = watch.expected
        /\ Drain(engine.eventQueue) = [i \in 1..Len(watch.ref) |-> watch.ref[i]])
  /\ [][last'.op = "peek" =>
          /\ engine'.eventQueue = engine.eventQueue
          /\ watch'.ref = watch.ref]_vars

\* The events of a gate have been removed from between three others with
\* equal and different times, and the rest is still pending.
C28_Witness ==
  /\ last.op = "removeEventsForGate"
  /\ watch.pushes = 4
  /\ Len(watch.ref) = 2
  /\ watch.ref[1].portIndex > watch.ref[2].portIndex

\* An event pushed later has been popped before one pushed earlier.
C28_WitnessPop ==
  /\ last.op = "pop"
  /\ watch.returned # <<>>
  /\ watch.ref # <<>>
  /\ watch.returned[1].portIndex > watch.ref[1].portIndex


\* The number of components of a type that the netlist holds.
CountOfType(e, type) ==
  Cardinality({i \in 1..Len(e.gates) : e.objs[e.gates[i].val].type = type})

\* The component a register entry refers to is the one the netlist holds
\* under its id.
Held(e, ref) == MapHas(e.gates, e.objs[ref].id) /\ MapGet(e.gates, e.objs[ref].id) = ref

\* C31: after any sequence of initialize, addGate, removeGate and reset with
\* arbitrary ids, the clock register has as many entries as the netlist has
\* CLOCK components, the pulse register as many as it has PULSE components,
\* and every register entry is a component the netlist holds.
C31_Registers ==
  /\ Len(engine.clockGates) = CountOfType(engine, "CLOCK")
  /\ Len(engine.pulseGates) = CountOfType(engine, "PULSE")
  /\ \A i \in 1..Len(engine.clockGates) : Held(engine, engine.clockGates[i])
  /\ \A i \in 1..Len(engine.pulseGates) : Held(engine, engine.pulseGates[i])


\* C32: a driver tick of a running kernel asks for min(n, 100) steps, where
\* n = floor((accumulator + elapsed) / msPerTick), resets the accumulator to
\* 0 whenever n exceeds 100, and so leaves less than msPerTick in the
\* accumulator.
C32_Backpressure ==
  [][(last'.op = "simulationLoop" /\ ~engineIsNull /\ isRunning(engine)) =>
        /\ last'.count <= MAX_STEPS_PER_FRAME
        /\ last'.count = IF (accumulator + (now - lastTime)) \div msPerTick > MAX_STEPS_PER_FRAME
                         THEN MAX_STEPS_PER_FRAME
                         ELSE (accumulator + (now - lastTime)) \div msPerTick
        /\ (accumulator + (now - lastTime)) \div msPerTick > MAX_STEPS_PER_FRAME =>
              accumulator' = 0
        /\ accumulator' < msPerTick
    ]_vars


\* The internal value of the TOGGLE with the given id.
ToggleValueOf(e, gateId) == Nullish(Get(GateOf(e, gateId).internalState, "value"), ZERO)

IsToggle(e, gateId) == MapHas(e.gates, gateId) /\ GateOf(e, gateId).type = "TOGGLE"

\* C33: after any sequence of toggle and setInput operations, with the
\* value of a setInput ranging over the states of the message type, the
\* internal value of a TOGGLE is ZERO or ONE, and a toggle flips it between
\* ZERO and ONE.
C33_ToggleBinary ==
  /\ [](\A gateId \in GateIds :
          IsToggle(engine, gateId) => ToggleValueOf(engine, gateId) \in {ZERO, ONE})
  /\ [][(last'.op = "toggleInput" /\ IsToggle(engine, last'.id)) =>
           {ToggleValueOf(engine, last'.id), ToggleValueOf(engine', last'.id)} = {ZERO, ONE}
       ]_vars


\* C34: as long as SET and RESET have not been ZERO, a D_FLIPFLOP_SR shows
\* the same Q and Q-bar as a D_FLIPFLOP fed the same D and CLK; when SET or
\* RESET is ZERO at an evaluation, Q is ONE (SET only), ZERO (RESET only) or
\* CONFLICT (both).
C34_SetResetRefines ==
  /\ ~watch.asserted =>
       getOutputStates(GateOf(engine, "s")) = getOutputStates(GateOf(engine, "f"))
  /\ LET setN == GateOf(engine, "s").inputs[3].state
         resetN == GateOf(engine, "s").inputs[4].state
         q == GateOf(engine, "s").outputs[1].state
     IN /\ (setN = ZERO /\ resetN # ZERO) => q = ONE
        /\ (setN # ZERO /\ resetN = ZERO) => q = ZERO
        /\ (setN = ZERO /\ resetN = ZERO) => q = CONFLICT


\* C35: a component built from a descriptor whose internalState does not
\* name a state key keeps the constructor default for that key; the stored
\* Q of a D flip-flop is then a state (ZERO until an edge or a reset), and
\* once the flip-flop has been evaluated its outputs are states too.
C35_SeedKeepsDefaults ==
  MapHas(engine.gates, SeedF.id) =>
     /\ Get(GateOf(engine, SeedF.id).internalState, "q") \in States
     /\ \A i \in 1..2 : GateOf(engine, SeedF.id).outputs[i].state \in States


\* C36: whenever wire propagation changes the CLK input of the flip-flop
\* from ZERO to ONE, the flip-flop is evaluated later while the input is
\* still ONE and its previous-input snapshot still ZERO: no rising edge is
\* lost between the input write and the deferred evaluation.
C36_NoEdgeLost == MapHas(engine.gates, "f") => ~watch.lost


\* The wire was added while both its endpoint components were present, with
\* port indices in range: both ports list it among their connected wires.
AddedConnected(e, wireId, wire) ==
  /\ MapHas(e.gates, wire.sourceGateId)
  /\ MapHas(e.gates, wire.targetGateId)
  /\ wire.sourcePortIndex >= 0
  /\ wire.sourcePortIndex < Len(GateOf(e, wire.sourceGateId).outputs)
  /\ wire.targetPortIndex >= 0
  /\ wire.targetPortIndex < Len(GateOf(e, wire.targetGateId).inputs)
  /\ SeqHas(GateOf(e, wire.sourceGateId).outputs[wire.sourcePortIndex + 1].connectedWires,
            wireId)
  /\ SeqHas(GateOf(e, wire.targetGateId).inputs[wire.targetPortIndex + 1].connectedWires,
            wireId)

C37_WitnessStep ==
  /\ last.op = "step"
  /\ \E k \in 1..Len(engine.wires) :
       /\ AddedConnected(engine, engine.wires[k].key, engine.wires[k].val)
       /\ engine.wires[k].val.state = ZERO

\* The events the event loop of one processTimeStep, run from e, pushed and
\* left pending are all for a time after e.currentTime.
LoopPushesLater(e) ==
  LET e0 == CheckPulses(UpdateClocks(e, 1), 1)
      e1 == ProcessEvents(e0, 0)
  IN \A i \in 1..Len(e1.eventQueue.heap) :
       e1.eventQueue.heap[i].creationTime >= e0.eventQueue.creationCounter
         => e1.eventQueue.heap[i].time > e.currentTime

RECURSIVE StepsPushLater(_, _, _)
\* LoopPushesLater for every iteration of step(count) from iteration i.
StepsPushLater(e, i, count) ==
  IF i >= count THEN TRUE
  ELSE /\ LoopPushesLater(e)
       /\ \/ isEmpty(processTimeStep(e).eventQueue)
          \/ StepsPushLater(processTimeStep(e), i + 1, count)

\* C38: every pending event has time <= currentTime + 1; no event popped
\* during a step enqueues an event for a time <= currentTime; and every
\* processTimeStep of a step call advances currentTime by exactly 1.
C38_TickByTick ==
  /\ [](\A i \in 1..Len(engine.eventQueue.heap) :
          engine.eventQueue.heap[i].time <= engine.currentTime + 1)
  /\ [][last'.op = "step"
          => /\ StepsPushLater(engine, 0, last'.count)
             /\ engine'.currentTime = engine.currentTime + last'.iterations]_vars

\* A step of two iterations that began with an event pending for the next
\* tick and an overdue one, and left events pending.
C38_Witness ==
  /\ last.op = "step"
  /\ last.iterations = 2
  /\ engine.currentTime >= 3
  /\ Overdue(engine) > 0
  /\ \E i \in 1..Len(engine.eventQueue.heap) :
       engine.eventQueue.heap[i].time = engine.currentTime

====
